---- MODULE Spec2Model ----
(***************************************************************************)
(* Model of the elbow transform algebra (elbow/transforms.py) and of the   *)
(* Gaussian expected-log-density dispatch (elbow/elementary.py,            *)
(* elbow/util/dists.py).                                                   *)
(*                                                                         *)
(* Tensor entries are fixed-point numbers: the integer v stands for the    *)
(* real v / Scale.  exp, log and sqrt are computed on that grid by series  *)
(* and Newton iteration, so a round trip through them is exact only up to  *)
(* rounding, as it is in float32.                                          *)
(***************************************************************************)
EXTENDS Integers, Sequences, FiniteSets, TLC

\* ------------------------------------------------------------------------
\* Bounds of the model
\* ------------------------------------------------------------------------
Scale == 1000
MaxRows == 2
MaxCols == 2
MaxVal == 3
Tol == 40
MaxLen == 2
MaxElpVal == 2

\* ------------------------------------------------------------------------
\* Fixed-point arithmetic (float32 tensors of TensorFlow).  A finite value v
\* has |v| <= FxMax; PosInf, NegInf and NaN stand for the non-finite floats.
\* ------------------------------------------------------------------------
Half == Scale \div 2
EFx == (27183 * Scale) \div 10000
TwoPiFx == (62832 * Scale) \div 10000
FxMax == Scale * Scale
PosInf == FxMax + 1
NegInf == -PosInf
NaN == FxMax + 2

Abs(a) == IF a < 0 THEN -a ELSE a
IsInf(a) == a = PosInf \/ a = NegInf
Sign(a) == IF a < 0 THEN -1 ELSE IF a > 0 THEN 1 ELSE 0

\* a result beyond the finite range overflows to an infinity
Sat(v) == IF v > FxMax THEN PosInf ELSE IF v < -FxMax THEN NegInf ELSE v

\* n / d rounded to the nearest integer, d > 0
RoundDiv(n, d) == (2 * n + d) \div (2 * d)

NegFx(a) == IF a = NaN THEN NaN ELSE -a

AddFx(a, b) ==
    IF a = NaN \/ b = NaN THEN NaN
    ELSE IF IsInf(a) THEN (IF b = -a THEN NaN ELSE a)
    ELSE IF IsInf(b) THEN b
    ELSE Sat(a + b)

SubFx(a, b) == AddFx(a, NegFx(b))

\* a * b / Scale, the product taken in two parts to stay within the integers
MulFx(a, b) ==
    IF a = NaN \/ b = NaN THEN NaN
    ELSE IF IsInf(a) \/ IsInf(b)
    THEN (IF a = 0 \/ b = 0 THEN NaN ELSE IF Sign(a) = Sign(b) THEN PosInf ELSE NegInf)
    ELSE IF Abs(a) * Abs(b \div Scale) > 2 * FxMax THEN (IF Sign(a) = Sign(b) THEN PosInf ELSE NegInf)
    ELSE Sat(a * (b \div Scale) + RoundDiv(a * (b % Scale), Scale))

\* an integer multiple k * a
MulInt(k, a) ==
    IF a = NaN THEN NaN
    ELSE IF IsInf(a) THEN (IF k = 0 THEN NaN ELSE IF Sign(a) = Sign(k) THEN PosInf ELSE NegInf)
    ELSE Sat(k * a)

DivFx(a, b) ==
    IF a = NaN \/ b = NaN THEN NaN
    ELSE IF IsInf(a) THEN (IF IsInf(b) THEN NaN ELSE IF (b >= 0) = (a > 0) THEN PosInf ELSE NegInf)
    ELSE IF IsInf(b) THEN 0
    ELSE IF b = 0 THEN (IF a = 0 THEN NaN ELSE IF a > 0 THEN PosInf ELSE NegInf)
    ELSE IF b > 0 THEN Sat(RoundDiv(a * Scale, b))
    ELSE Sat(-RoundDiv(a * Scale, -b))

RECURSIVE ExpSeries(_, _, _, _)
ExpSeries(r, k, term, acc) ==
    IF term = 0 THEN acc
    ELSE ExpSeries(r, k + 1, RoundDiv(term * r, Scale * (k + 1)), acc + term)

RECURSIVE ScaleByE(_, _)
ScaleByE(v, n) ==
    IF n = 0 \/ v = 0 \/ v = PosInf THEN v
    ELSE IF n > 0 THEN ScaleByE(MulFx(v, EFx), n - 1)
    ELSE ScaleByE(DivFx(v, EFx), n + 1)

\* tf.exp
ExpFx(x) ==
    IF x = NaN \/ x = PosInf THEN x
    ELSE IF x = NegInf THEN 0
    ELSE LET n == x \div Scale
             r == x - n * Scale
         IN  ScaleByE(ExpSeries(r, 0, Scale, 0), n)

RECURSIVE LnReduce(_, _)
LnReduce(v, n) ==
    IF v >= EFx THEN LnReduce(DivFx(v, EFx), n + 1)
    ELSE IF v < Scale THEN LnReduce(MulFx(v, EFx), n - 1)
    ELSE <<v, n>>

RECURSIVE AtanhSeries(_, _, _, _)
AtanhSeries(z2, k, pow, acc) ==
    IF pow = 0 THEN acc
    ELSE AtanhSeries(z2, k + 1, RoundDiv(pow * z2, Scale), acc + RoundDiv(pow, 2 * k + 1))

\* tf.log / np.log
LnFx(v) ==
    IF v = NaN \/ v < 0 THEN NaN
    ELSE IF v = 0 THEN NegInf
    ELSE IF v = PosInf THEN PosInf
    ELSE LET red == LnReduce(v, 0)
             m == red[1]
             z == RoundDiv((m - Scale) * Scale, m + Scale)
             z2 == RoundDiv(z * z, Scale)
         IN  2 * AtanhSeries(z2, 0, z, 0) + red[2] * Scale

RECURSIVE SqrtIter(_, _)
SqrtIter(n, g) ==
    LET g2 == (g + n \div g) \div 2
    IN  IF g2 >= g THEN g ELSE SqrtIter(n, g2)

\* tf.sqrt
SqrtFx(v) ==
    IF v = NaN \/ v < 0 THEN NaN
    ELSE IF v = 0 \/ v = PosInf THEN v
    ELSE SqrtIter(v * Scale, v * Scale)

\* tf.clip_by_value
ClipFx(v, lo, hi) == IF v = NaN THEN NaN ELSE IF v < lo THEN lo ELSE IF v > hi THEN hi ELSE v

\* The clipping ranges of the transforms.  float32 holds magnitudes between
\* about 1e-45 and 1e38; on the grid the least positive value is one quantum
\* and the largest finite one is FxMax.
ExpClip == 88
LogClipLo == 1
LogClipHi == FxMax
RecipClipLo == 1

ClipExpInput(v) == ClipFx(v, -ExpClip * Scale, ExpClip * Scale)
ClipLogInput(v) == ClipFx(v, LogClipLo, LogClipHi)
ClipReciprocalInput(v) == ClipFx(v, RecipClipLo, LogClipHi)

\* ------------------------------------------------------------------------
\* Tensors: a matrix is a sequence of rows, a shape is a tuple of dimensions
\* ------------------------------------------------------------------------
NRows(m) == Len(m)
NCols(m) == IF Len(m) = 0 THEN 0 ELSE Len(m[1])

RECURSIVE SumSeq(_)
SumSeq(s) == IF Len(s) = 0 THEN 0 ELSE AddFx(s[1], SumSeq(Tail(s)))

RECURSIVE MaxSeq(_)
MaxSeq(s) ==
    IF Len(s) = 1 THEN s[1]
    ELSE LET t == MaxSeq(Tail(s)) IN IF s[1] > t THEN s[1] ELSE t

\* tf.reduce_sum over every element
ReduceSum(m) == SumSeq([i \in 1..Len(m) |-> SumSeq(m[i])])

\* tf.reduce_sum(x, axis=1): one sum per row
RowSums(m) == [i \in 1..Len(m) |-> SumSeq(m[i])]

\* tf.transpose
TransposeM(m) == [j \in 1..NCols(m) |-> [i \in 1..NRows(m) |-> m[i][j]]]

\* the column of a matrix as a vector (tf.unstack(axis=1)[j])
Col(m, j) == [i \in 1..NRows(m) |-> m[i][j]]

\* ------------------------------------------------------------------------
\* What a call returns: the value alone, the pair (value, log-Jacobian) when
\* return_log_jac is set, or the exception it raises
\* ------------------------------------------------------------------------
Raise(e) == [st |-> e, ret |-> <<>>]
Return(y, lj, return_log_jac) ==
    [st |-> "ok", ret |-> IF return_log_jac THEN <<y, lj>> ELSE <<y>>]
IsOk(r) == r.st = "ok"
Val(r) == r.ret[1]
HasLogJac(r) == r.st = "ok" /\ Len(r.ret) = 2
LogJac(r) == r.ret[2]

\* ------------------------------------------------------------------------
\* The base transforms
\* ------------------------------------------------------------------------
Logit_transform(x, return_log_jac, clip_finite) ==
    LET xc == [i \in 1..NRows(x) |-> [j \in 1..NCols(x) |->
                  IF clip_finite THEN ClipExpInput(x[i][j]) ELSE x[i][j]]]
        transformed == [i \in 1..NRows(x) |-> [j \in 1..NCols(x) |->
                  DivFx(Scale, AddFx(Scale, ExpFx(NegFx(xc[i][j]))))]]
        jacobian == [i \in 1..NRows(x) |-> [j \in 1..NCols(x) |->
                  LET jac == MulFx(transformed[i][j], SubFx(Scale, transformed[i][j]))
                  IN  IF clip_finite THEN ClipLogInput(jac) ELSE jac]]
        log_jacobian == ReduceSum([i \in 1..NRows(x) |-> [j \in 1..NCols(x) |->
                  LnFx(jacobian[i][j])]])
    IN  Return(transformed, log_jacobian, return_log_jac)

\* the log-Jacobian branch reads clip_finite, which is no parameter of inverse
Logit_inverse(transformed, return_log_jac) ==
    LET x == [i \in 1..NRows(transformed) |-> [j \in 1..NCols(transformed) |->
                  LnFx(SubFx(DivFx(Scale, transformed[i][j]), Scale))]]
    IN  IF return_log_jac THEN Raise("NameError") ELSE Return(x, 0, FALSE)

RowNormalize_transform(x_positive, return_log_jac) ==
    LET k == NCols(x_positive)
        Z == RowSums(x_positive)
        transformed == [i \in 1..NRows(x_positive) |-> [j \in 1..k |->
                  DivFx(x_positive[i][j], Z[i])]]
        log_jacobian == MulInt(-k, SumSeq([i \in 1..Len(Z) |-> LnFx(Z[i])]))
    IN  Return(transformed, log_jacobian, return_log_jac)

UnitColumn_transform(x, return_log_jac) ==
    LET transformed == [i \in 1..NRows(x) |-> Append(x[i], Scale)]
    IN  Return(transformed, 0, return_log_jac)

RowNormalize1_transform(x_positive, return_log_jac) ==
    LET k == NCols(x_positive)
        expanded == [i \in 1..NRows(x_positive) |-> Append(x_positive[i], Scale)]
        Z == RowSums(expanded)
        transformed == [i \in 1..NRows(expanded) |-> [j \in 1..(k + 1) |->
                  DivFx(expanded[i][j], Z[i])]]
        log_jacobian == MulInt(-k, SumSeq([i \in 1..Len(Z) |-> LnFx(Z[i])]))
    IN  Return(transformed, log_jacobian, return_log_jac)

\* tf.stack of the empty list of columns of a one-column matrix reads values[0]
RowNormalize1_inverse(transformed, return_log_jac) ==
    LET k == NCols(transformed)
        last_col == Col(transformed, k)
        x == [i \in 1..NRows(transformed) |-> [j \in 1..(k - 1) |->
                  DivFx(transformed[i][j], last_col[i])]]
        log_jacobian == MulInt(-(k - 1), SumSeq([i \in 1..Len(last_col) |->
                            LnFx(last_col[i])]))
    IN  IF k < 2 THEN Raise("IndexError") ELSE Return(x, log_jacobian, return_log_jac)

Exp_transform(x, return_log_jac, clip_finite) ==
    LET xc == [i \in 1..NRows(x) |-> [j \in 1..NCols(x) |->
                  IF clip_finite THEN ClipExpInput(x[i][j]) ELSE x[i][j]]]
        transformed == [i \in 1..NRows(x) |-> [j \in 1..NCols(x) |-> ExpFx(xc[i][j])]]
    IN  Return(transformed, ReduceSum(xc), return_log_jac)

Exp_inverse(transformed, return_log_jac, clip_finite) ==
    LET tc == [i \in 1..NRows(transformed) |-> [j \in 1..NCols(transformed) |->
                  IF clip_finite THEN ClipLogInput(transformed[i][j])
                  ELSE transformed[i][j]]]
        x == [i \in 1..NRows(tc) |-> [j \in 1..NCols(tc) |-> LnFx(tc[i][j])]]
    IN  Return(x, NegFx(ReduceSum(x)), return_log_jac)

Log1Exp_transform(x, return_log_jac, clip_finite) ==
    LET xc == [i \in 1..NRows(x) |-> [j \in 1..NCols(x) |->
                  IF clip_finite THEN ClipExpInput(x[i][j]) ELSE x[i][j]]]
        transformed == [i \in 1..NRows(x) |-> [j \in 1..NCols(x) |->
                  LnFx(AddFx(Scale, ExpFx(xc[i][j])))]]
        log_jacobian == ReduceSum([i \in 1..NRows(x) |-> [j \in 1..NCols(x) |->
                  SubFx(xc[i][j], transformed[i][j])]])
    IN  Return(transformed, log_jacobian, return_log_jac)

Log1Exp_inverse(transformed, return_log_jac, clip_finite) ==
    LET tc == [i \in 1..NRows(transformed) |-> [j \in 1..NCols(transformed) |->
                  IF clip_finite THEN ClipLogInput(transformed[i][j])
                  ELSE transformed[i][j]]]
        x == [i \in 1..NRows(tc) |-> [j \in 1..NCols(tc) |->
                  LnFx(SubFx(ExpFx(tc[i][j]), Scale))]]
        log_jacobian == ReduceSum([i \in 1..NRows(tc) |-> [j \in 1..NCols(tc) |->
                  SubFx(tc[i][j], x[i][j])]])
    IN  Return(x, log_jacobian, return_log_jac)

\* np.log(2) is added once, whatever the number of elements
Square_transform(x, return_log_jac) ==
    LET transformed == [i \in 1..NRows(x) |-> [j \in 1..NCols(x) |->
                  MulFx(x[i][j], x[i][j])]]
        log_jacobian == AddFx(ReduceSum([i \in 1..NRows(x) |-> [j \in 1..NCols(x) |->
                  LnFx(x[i][j])]]), LnFx(2 * Scale))
    IN  Return(transformed, log_jacobian, return_log_jac)

Square_inverse(transformed, return_log_jac) ==
    LET x == [i \in 1..NRows(transformed) |-> [j \in 1..NCols(transformed) |->
                  SqrtFx(transformed[i][j])]]
        log_jacobian == ReduceSum([i \in 1..NRows(x) |-> [j \in 1..NCols(x) |->
                  LnFx(DivFx(Half, x[i][j]))]])
    IN  Return(x, log_jacobian, return_log_jac)

Reciprocal_transform(x, return_log_jac, clip_finite) ==
    LET nlogx == [i \in 1..NRows(x) |-> [j \in 1..NCols(x) |->
                  NegFx(LnFx(IF clip_finite THEN ClipReciprocalInput(x[i][j]) ELSE x[i][j]))]]
        transformed == [i \in 1..NRows(x) |-> [j \in 1..NCols(x) |-> ExpFx(nlogx[i][j])]]
    IN  Return(transformed, MulInt(2, ReduceSum(nlogx)), return_log_jac)

Transpose_transform(x, return_log_jac) ==
    Return(TransposeM(x), 0, return_log_jac)

\* ------------------------------------------------------------------------
\* Transform classes as values: a base class by name, the class returned by
\* invert_transform(source), the class returned by chain_transforms(*ts)
\* ------------------------------------------------------------------------
Base(n) == [k |-> "Base", name |-> n, ts |-> <<>>]
invert_transform(source) == [k |-> "Inverted", name |-> "", ts |-> <<source>>]
chain_transforms(transforms) == [k |-> "Chain", name |-> "", ts |-> transforms]

Logit == Base("Logit")
RowNormalize == Base("RowNormalize")
UnitColumn == Base("UnitColumn")
RowNormalize1 == Base("RowNormalize1")
Exp == Base("Exp")
Log1Exp == Base("Log1Exp")
Square == Base("Square")
Reciprocal == Base("Reciprocal")
Transpose == Base("Transpose")
Simplex == Base("Simplex")
SimplexCol == Base("SimplexCol")

Sqrt == invert_transform(Square)
Log == invert_transform(Exp)
Reciprocal_Sqrt == chain_transforms(<<Reciprocal, Sqrt>>)
Reciprocal_Square == chain_transforms(<<Reciprocal, Square>>)
Exp_Reciprocal == chain_transforms(<<Exp, Reciprocal>>)
ColNormalize1 == chain_transforms(<<Transpose, RowNormalize1, Transpose>>)
ColNormalize == chain_transforms(<<Transpose, RowNormalize, Transpose>>)
Simplex1 == chain_transforms(<<Exp, RowNormalize1>>)
Simplex1Col == chain_transforms(<<Exp, ColNormalize1>>)
Simplex_Raw == chain_transforms(<<Exp, RowNormalize>>)
Simplex_Raw_Col == chain_transforms(<<Exp, ColNormalize>>)

\* subclasses of SelfInverseTransform
IsSelfInverse(T) == T.k = "Base" /\ T.name \in {"Reciprocal", "Transpose"}

\* Transform.inverse of the abstract class
Transform_inverse(transformed, return_log_jac) == Raise("NotImplementedError")

\* Transform.output_shape / Transform.input_shape: a pointwise transform
Transform_output_shape(input_shape) == [st |-> "ok", ret |-> <<input_shape>>]
Transform_input_shape(output_shape) == [st |-> "ok", ret |-> <<output_shape>>]

UnitColumn_output_shape(input_shape) ==
    IF Len(input_shape) = 2
    THEN [st |-> "ok", ret |-> <<(<<input_shape[1], input_shape[2] + 1>>)>>]
    ELSE IF Len(input_shape) = 1
    THEN [st |-> "ok", ret |-> <<(<<input_shape[1] + 1>>)>>]
    ELSE Raise("ValueError")

RowNormalize1_output_shape(input_shape) ==
    IF Len(input_shape) = 2
    THEN [st |-> "ok", ret |-> <<(<<input_shape[1], input_shape[2] + 1>>)>>]
    ELSE IF Len(input_shape) = 1
    THEN [st |-> "ok", ret |-> <<(<<input_shape[1] + 1>>)>>]
    ELSE Raise("ValueError")

RowNormalize1_input_shape(output_shape) ==
    IF Len(output_shape) = 2
    THEN [st |-> "ok", ret |-> <<(<<output_shape[1], output_shape[2] - 1>>)>>]
    ELSE IF Len(output_shape) = 1
    THEN [st |-> "ok", ret |-> <<(<<output_shape[1] - 1>>)>>]
    ELSE Raise("ValueError")

Transpose_output_shape(input_shape) ==
    IF Len(input_shape) = 2
    THEN [st |-> "ok", ret |-> <<(<<input_shape[2], input_shape[1]>>)>>]
    ELSE Raise("ValueError")

RECURSIVE transform(_, _, _)
RECURSIVE inverse(_, _, _)
RECURSIVE output_shape(_, _)
RECURSIVE input_shape(_, _)
RECURSIVE is_structural(_)

\* Simplex.transform without the subtraction of the row maximum
Simplex_transform_NoShift(x, return_log_jac) == transform(Simplex_Raw, x, return_log_jac)

\* Simplex.transform: subtract the row maximum, then Simplex_Raw
Simplex_transform(x, return_log_jac) ==
    LET xmax == [i \in 1..NRows(x) |-> MaxSeq(x[i])]
        shifted == [i \in 1..NRows(x) |-> [j \in 1..NCols(x) |-> SubFx(x[i][j], xmax[i])]]
    IN  transform(Simplex_Raw, shifted, return_log_jac)

\* SimplexCol.transform: subtract the column maximum, then Simplex_Raw_Col
SimplexCol_transform(x, return_log_jac) ==
    LET xmax == [j \in 1..NCols(x) |-> MaxSeq(Col(x, j))]
        shifted == [i \in 1..NRows(x) |-> [j \in 1..NCols(x) |-> SubFx(x[i][j], xmax[j])]]
    IN  transform(Simplex_Raw_Col, shifted, return_log_jac)

\* SelfInverseTransform.inverse that drops the keywords it was called with
SelfInverseTransform_inverse_NoKwargs(T, transformed, return_log_jac) ==
    transform(T, transformed, FALSE)

\* SelfInverseTransform.inverse / input_shape
SelfInverseTransform_inverse(T, transformed, return_log_jac) ==
    transform(T, transformed, return_log_jac)
SelfInverseTransform_input_shape(T, shape) == output_shape(T, shape)

\* Inverted.output_shape that forgets to swap the shape maps
Inverted_output_shape_NotSwapped(source, shape) == output_shape(source, shape)

\* invert_transform(source).Inverted
Inverted_transform(source, x, return_log_jac) == inverse(source, x, return_log_jac)
Inverted_inverse(source, transformed, return_log_jac) ==
    transform(source, transformed, return_log_jac)
Inverted_output_shape(source, shape) == input_shape(source, shape)
Inverted_input_shape(source, shape) == output_shape(source, shape)
Inverted_is_structural(source) == is_structural(source)

RECURSIVE Chain_transform(_, _, _, _, _)
RECURSIVE Chain_inverse(_, _, _, _, _)
RECURSIVE Chain_output_shape(_, _, _)
RECURSIVE Chain_input_shape(_, _, _)
RECURSIVE Chain_is_structural(_, _, _)

\* Chain.transform that returns the last stage's log-Jacobian instead of the sum
Chain_transform_LastLogJac(transforms, i, x, log_jacs, return_log_jac) ==
    IF i > Len(transforms)
    THEN IF return_log_jac /\ Len(log_jacs) = 0 THEN Raise("ValueError")
         ELSE Return(x, IF return_log_jac THEN log_jacs[Len(log_jacs)] ELSE 0,
                     return_log_jac)
    ELSE LET r == transform(transforms[i], x, return_log_jac)
         IN  IF ~IsOk(r) THEN r
             ELSE Chain_transform(transforms, i + 1, Val(r),
                      IF return_log_jac THEN Append(log_jacs, LogJac(r)) ELSE log_jacs,
                      return_log_jac)

\* Chain.inverse that walks transforms in forward order (the [::-1] forgotten)
Chain_inverse_ForwardOrder(transforms, i, transformed, log_jacs, return_log_jac) ==
    IF i < 1
    THEN IF return_log_jac /\ Len(log_jacs) = 0 THEN Raise("ValueError")
         ELSE Return(transformed, SumSeq(log_jacs), return_log_jac)
    ELSE LET r == inverse(transforms[Len(transforms) - i + 1], transformed, return_log_jac)
         IN  IF ~IsOk(r) THEN r
             ELSE Chain_inverse(transforms, i - 1, Val(r),
                      IF return_log_jac THEN Append(log_jacs, LogJac(r)) ELSE log_jacs,
                      return_log_jac)

\* Chain.input_shape that walks transforms in forward order
Chain_input_shape_ForwardOrder(transforms, i, shape) ==
    IF i < 1 THEN [st |-> "ok", ret |-> <<shape>>]
    ELSE LET r == input_shape(transforms[Len(transforms) - i + 1], shape)
         IN  IF ~IsOk(r) THEN r ELSE Chain_input_shape(transforms, i - 1, Val(r))

\* Chain.is_structural that assigns (=) instead of multiplying (*=)
Chain_is_structural_Assign(transforms, i, acc) ==
    IF i < 1 THEN acc # 0
    ELSE Chain_is_structural(transforms, i - 1,
             IF is_structural(transforms[i]) THEN 1 ELSE 0)

\* chain_transforms(*transforms).Chain.transform: the loop from transforms[i] on;
\* stacking no log-Jacobian at all is an error
Chain_transform(transforms, i, x, log_jacs, return_log_jac) ==
    IF i > Len(transforms)
    THEN IF return_log_jac /\ Len(log_jacs) = 0 THEN Raise("ValueError")
         ELSE Return(x, SumSeq(log_jacs), return_log_jac)
    ELSE LET r == transform(transforms[i], x, return_log_jac)
         IN  IF ~IsOk(r) THEN r
             ELSE Chain_transform(transforms, i + 1, Val(r),
                      IF return_log_jac THEN Append(log_jacs, LogJac(r)) ELSE log_jacs,
                      return_log_jac)

\* Chain.inverse: the loop over transforms[::-1], from transforms[i] down
Chain_inverse(transforms, i, transformed, log_jacs, return_log_jac) ==
    IF i < 1
    THEN IF return_log_jac /\ Len(log_jacs) = 0 THEN Raise("ValueError")
         ELSE Return(transformed, SumSeq(log_jacs), return_log_jac)
    ELSE LET r == inverse(transforms[i], transformed, return_log_jac)
         IN  IF ~IsOk(r) THEN r
             ELSE Chain_inverse(transforms, i - 1, Val(r),
                      IF return_log_jac THEN Append(log_jacs, LogJac(r)) ELSE log_jacs,
                      return_log_jac)

\* Chain.output_shape: the loop over transforms
Chain_output_shape(transforms, i, shape) ==
    IF i > Len(transforms) THEN [st |-> "ok", ret |-> <<shape>>]
    ELSE LET r == output_shape(transforms[i], shape)
         IN  IF ~IsOk(r) THEN r ELSE Chain_output_shape(transforms, i + 1, Val(r))

\* Chain.input_shape: the loop over transforms[::-1]
Chain_input_shape(transforms, i, shape) ==
    IF i < 1 THEN [st |-> "ok", ret |-> <<shape>>]
    ELSE LET r == input_shape(transforms[i], shape)
         IN  IF ~IsOk(r) THEN r ELSE Chain_input_shape(transforms, i - 1, Val(r))

\* Chain.is_structural: is_structural = True; is_structural *= t.is_structural()
\* over transforms[::-1]; the product of the flags, read as a truth value
Chain_is_structural(transforms, i, acc) ==
    IF i < 1 THEN acc # 0
    ELSE Chain_is_structural(transforms, i - 1,
             acc * (IF is_structural(transforms[i]) THEN 1 ELSE 0))

\* T.transform(x, return_log_jac=...)
transform(T, x, return_log_jac) ==
    IF T.k = "Inverted" THEN Inverted_transform(T.ts[1], x, return_log_jac)
    ELSE IF T.k = "Chain" THEN Chain_transform(T.ts, 1, x, <<>>, return_log_jac)
    ELSE CASE T.name = "Logit" -> Logit_transform(x, return_log_jac, TRUE)
           [] T.name = "RowNormalize" -> RowNormalize_transform(x, return_log_jac)
           [] T.name = "UnitColumn" -> UnitColumn_transform(x, return_log_jac)
           [] T.name = "RowNormalize1" -> RowNormalize1_transform(x, return_log_jac)
           [] T.name = "Exp" -> Exp_transform(x, return_log_jac, TRUE)
           [] T.name = "Log1Exp" -> Log1Exp_transform(x, return_log_jac, TRUE)
           [] T.name = "Square" -> Square_transform(x, return_log_jac)
           [] T.name = "Reciprocal" -> Reciprocal_transform(x, return_log_jac, TRUE)
           [] T.name = "Transpose" -> Transpose_transform(x, return_log_jac)
           [] T.name = "Simplex" -> Simplex_transform(x, return_log_jac)
           [] T.name = "SimplexCol" -> SimplexCol_transform(x, return_log_jac)

\* T.inverse(transformed, return_log_jac=...)
inverse(T, transformed, return_log_jac) ==
    IF T.k = "Inverted" THEN Inverted_inverse(T.ts[1], transformed, return_log_jac)
    ELSE IF T.k = "Chain"
    THEN Chain_inverse(T.ts, Len(T.ts), transformed, <<>>, return_log_jac)
    ELSE IF IsSelfInverse(T) THEN SelfInverseTransform_inverse(T, transformed, return_log_jac)
    ELSE CASE T.name = "Logit" -> Logit_inverse(transformed, return_log_jac)
           [] T.name = "RowNormalize1" -> RowNormalize1_inverse(transformed, return_log_jac)
           [] T.name = "Exp" -> Exp_inverse(transformed, return_log_jac, TRUE)
           [] T.name = "Log1Exp" -> Log1Exp_inverse(transformed, return_log_jac, TRUE)
           [] T.name = "Square" -> Square_inverse(transformed, return_log_jac)
           [] OTHER -> Transform_inverse(transformed, return_log_jac)

\* T.output_shape(input_shape)
output_shape(T, shape) ==
    IF T.k = "Inverted" THEN Inverted_output_shape(T.ts[1], shape)
    ELSE IF T.k = "Chain" THEN Chain_output_shape(T.ts, 1, shape)
    ELSE CASE T.name = "UnitColumn" -> UnitColumn_output_shape(shape)
           [] T.name = "RowNormalize1" -> RowNormalize1_output_shape(shape)
           [] T.name = "Transpose" -> Transpose_output_shape(shape)
           [] OTHER -> Transform_output_shape(shape)

\* T.input_shape(output_shape)
input_shape(T, shape) ==
    IF T.k = "Inverted" THEN Inverted_input_shape(T.ts[1], shape)
    ELSE IF T.k = "Chain" THEN Chain_input_shape(T.ts, Len(T.ts), shape)
    ELSE IF IsSelfInverse(T) THEN SelfInverseTransform_input_shape(T, shape)
    ELSE CASE T.name = "RowNormalize1" -> RowNormalize1_input_shape(shape)
           [] OTHER -> Transform_input_shape(shape)

\* T.is_structural()
is_structural(T) ==
    IF T.k = "Inverted" THEN Inverted_is_structural(T.ts[1])
    ELSE IF T.k = "Chain" THEN Chain_is_structural(T.ts, Len(T.ts), 1)
    ELSE T.name = "Transpose"

\* ------------------------------------------------------------------------
\* Gaussian densities (elbow/util/dists.py) on vectors of fixed-point numbers
\* ------------------------------------------------------------------------
\* gaussian_log_density(x, mean=mean, variance=variance), one entry per element
gaussian_log_density(x, mean, variance) ==
    [i \in 1..Len(x) |->
        LET r == SubFx(x[i], mean[i])
            z == DivFx(MulFx(r, r), variance[i])
        IN  SubFx(MulFx(-Half, z), MulFx(Half, LnFx(MulFx(TwoPiFx, variance[i]))))]

\* gaussian_cross_entropy: E_p[-log q(x)], one entry per element
gaussian_cross_entropy(mean_p, variance_p, mean_q, variance_q) ==
    LET gaussian_lp == gaussian_log_density(mean_p, mean_q, variance_q)
        correction == [i \in 1..Len(mean_p) |->
                          MulFx(-Half, DivFx(variance_p[i], variance_q[i]))]
    IN  [i \in 1..Len(mean_p) |-> NegFx(AddFx(gaussian_lp[i], correction[i]))]

\* tf.square on a vector
SquareV(v) == [i \in 1..Len(v) |-> MulFx(v[i], v[i])]
AddV(u, v) == [i \in 1..Len(u) |-> AddFx(u[i], v[i])]

\* ------------------------------------------------------------------------
\* Gaussian node (elbow/elementary.py).  A posterior node is the record of its
\* attributes; None is the record without attributes.
\* ------------------------------------------------------------------------
None == <<>>

\* is_gaussian: both attribute reads succeed
is_gaussian(dist) == "mean" \in DOMAIN dist /\ "variance" \in DOMAIN dist

\* get_sample inside Gaussian._expected_logp
get_sample(q, param, nonrandom) == IF q = None THEN nonrandom[param] ELSE q.sampled

\* Gaussian._logp
Gaussian_logp(result, mean, std) ==
    SumSeq(gaussian_log_density(result, mean, SquareV(std)))

\* Gaussian._expected_logp whose second branch plugs in the mean's sample where
\* the result's sample belongs
Gaussian_expected_logp_WrongSample(qr, qm, qs, nonrandom) ==
    LET std_sample == get_sample(qs, "std", nonrandom)
        mean_sample == get_sample(qm, "mean", nonrandom)
        result_sample == qr.sampled
    IN  IF is_gaussian(qr) /\ ~is_gaussian(qm)
        THEN NegFx(SumSeq(gaussian_cross_entropy(qr.mean, qr.variance, mean_sample,
                                            SquareV(std_sample))))
        ELSE IF ~is_gaussian(qr) /\ is_gaussian(qm)
        THEN NegFx(SumSeq(gaussian_cross_entropy(qm.mean, qm.variance, mean_sample,
                                            SquareV(std_sample))))
        ELSE IF is_gaussian(qr) /\ is_gaussian(qm)
        THEN NegFx(SumSeq(gaussian_cross_entropy(qm.mean, AddV(qm.variance, qr.variance),
                                            qr.mean, SquareV(std_sample))))
        ELSE Gaussian_logp(result_sample, mean_sample, std_sample)

\* Gaussian._expected_logp whose both-Gaussian branch leaves the result
\* posterior's variance out and plugs in its sample
Gaussian_expected_logp_PlugIn(qr, qm, qs, nonrandom) ==
    LET std_sample == get_sample(qs, "std", nonrandom)
        mean_sample == get_sample(qm, "mean", nonrandom)
        result_sample == qr.sampled
    IN  IF is_gaussian(qr) /\ ~is_gaussian(qm)
        THEN NegFx(SumSeq(gaussian_cross_entropy(qr.mean, qr.variance, mean_sample,
                                            SquareV(std_sample))))
        ELSE IF ~is_gaussian(qr) /\ is_gaussian(qm)
        THEN NegFx(SumSeq(gaussian_cross_entropy(qm.mean, qm.variance, result_sample,
                                            SquareV(std_sample))))
        ELSE IF is_gaussian(qr) /\ is_gaussian(qm)
        THEN NegFx(SumSeq(gaussian_cross_entropy(qm.mean, qm.variance,
                                            result_sample, SquareV(std_sample))))
        ELSE Gaussian_logp(result_sample, mean_sample, std_sample)

\* Gaussian._expected_logp
Gaussian_expected_logp(qr, qm, qs, nonrandom) ==
    LET std_sample == get_sample(qs, "std", nonrandom)
        mean_sample == get_sample(qm, "mean", nonrandom)
        result_sample == qr.sampled
    IN  IF is_gaussian(qr) /\ ~is_gaussian(qm)
        THEN NegFx(SumSeq(gaussian_cross_entropy(qr.mean, qr.variance, mean_sample,
                                            SquareV(std_sample))))
        ELSE IF ~is_gaussian(qr) /\ is_gaussian(qm)
        THEN NegFx(SumSeq(gaussian_cross_entropy(qm.mean, qm.variance, result_sample,
                                            SquareV(std_sample))))
        ELSE IF is_gaussian(qr) /\ is_gaussian(qm)
        THEN NegFx(SumSeq(gaussian_cross_entropy(qm.mean, AddV(qm.variance, qr.variance),
                                            qr.mean, SquareV(std_sample))))
        ELSE Gaussian_logp(result_sample, mean_sample, std_sample)

\* ------------------------------------------------------------------------
\* Nodes (elbow/conditional_dist.py, elbow/transforms.py).  A node object is
\* the record of its attributes.  The nodes of a model are held by name in a
\* graph g, and a random input of a node of the graph is the name of its
\* parent; a node built outside the graph holds its parent as a record.
\* ------------------------------------------------------------------------
\* ConditionalDistribution.__init__: the name, the frozen shape, the inputs
\* bound to parents or to constants, no observation and no posterior yet
ConditionalDistribution_init(kind, name, shape, inputs_random, inputs_nonrandom, input_shapes) ==
    [kind |-> kind, name |-> name, shape |-> shape,
     inputs_random |-> inputs_random, inputs_nonrandom |-> inputs_nonrandom,
     input_shapes |-> input_shapes, observed |-> None, q |-> None]

\* the outcome of a call on a node of the graph: its status and the graph after
Outcome(st, g) == [st |-> st, graph |-> g]

\* ConditionalDistribution.observe: fixes the node's value
ConditionalDistribution_observe(g, n, observed_val) ==
    Outcome("ok", [g EXCEPT ![n].observed = observed_val])

\* ConditionalDistribution.attach_q: fails unless the shapes agree
ConditionalDistribution_attach_q(g, n, qdist) ==
    IF qdist.shape # g[n].shape
    THEN Outcome("Exception", g)
    ELSE Outcome("ok", [g EXCEPT ![n].q = qdist])

\* DeterministicTransform.attach_q that attaches as a stochastic node does
DeterministicTransform_attach_q_Attaches(g, n, qdist) ==
    ConditionalDistribution_attach_q(g, n, qdist)

\* DeterministicTransform.attach_q
DeterministicTransform_attach_q(g, n, qdist) == Outcome("Exception", g)

\* DeterministicTransform.observe
DeterministicTransform_observe(g, n, observed_val) == Outcome("Exception", g)

RECURSIVE observe(_, _, _)

\* the second statement of UnaryTransform.observe, reached when the first
\* has not raised
UnaryTransform_observe_parent(g, n, transformed) ==
    IF ~IsOk(transformed)
    THEN Outcome(transformed.st, g)
    ELSE observe(g, g[n].inputs_random["A"], Val(transformed))

\* UnaryTransform.observe that pushes the value through the forward map
UnaryTransform_observe_Forward(g, n, observed_val) ==
    UnaryTransform_observe_parent(g, n, transform(g[n].transform, observed_val, FALSE))

\* UnaryTransform.observe
UnaryTransform_observe(g, n, observed_val) ==
    UnaryTransform_observe_parent(g, n, inverse(g[n].transform, observed_val, FALSE))

\* node.observe(observed_val) by the class of the node
observe(g, n, observed_val) ==
    IF g[n].kind = "UnaryTransform" THEN UnaryTransform_observe(g, n, observed_val)
    ELSE IF g[n].kind = "DeterministicTransform"
    THEN DeterministicTransform_observe(g, n, observed_val)
    ELSE ConditionalDistribution_observe(g, n, observed_val)

\* node.attach_q(qdist) by the class of the node
attach_q(g, n, qdist) ==
    IF g[n].kind \in {"UnaryTransform", "DeterministicTransform"}
    THEN DeterministicTransform_attach_q(g, n, qdist)
    ELSE ConditionalDistribution_attach_q(g, n, qdist)

\* std**2 on a tensor; a scalar tensor (shape ()) is held as a 1 x 1 matrix
SquareM(m) == [i \in 1..Len(m) |-> SquareV(m[i])]
ScalarTensor(v) == <<(<<v>>)>>

\* the attributes the constructor sets on the node: one per input
WithAttrs(attrs, node) == attrs @@ node

\* Gaussian.derived_parameters(mean, std, **kwargs)
Gaussian_derived_parameters(self, kwargs) ==
    IF {"mean", "std"} \subseteq DOMAIN kwargs
    THEN [st |-> "ok",
          ret |-> <<[variance |-> SquareM(kwargs.std)]>>]
    ELSE Raise("TypeError")

\* ConditionalDistribution.derived_parameters: none
ConditionalDistribution_derived_parameters(self, kwargs) ==
    [st |-> "ok", ret |-> <<[a \in {} |-> 0]>>]

\* A.derived_parameters(**kwargs) by the class of A
derived_parameters(self, kwargs) ==
    IF self.kind = "Gaussian" THEN Gaussian_derived_parameters(self, kwargs)
    ELSE ConditionalDistribution_derived_parameters(self, kwargs)

\* the derived parameters, none when A.derived_parameters raises
DerivedOrNone(derived) == IF IsOk(derived) THEN Val(derived) ELSE [a \in {} |-> 0]

\* a catalog node whose inputs are all constants: kind(name=name, shape=shape,
\* **inputs), with the attributes ConditionalDistribution.__init__ sets
CatalogNode(kind, name, shape, inputs, input_shapes) ==
    WithAttrs(DerivedOrNone(derived_parameters([kind |-> kind,
                                                 input_shapes |-> input_shapes], inputs))
              @@ inputs,
              ConditionalDistribution_init(kind, name, shape, [a \in {} |-> 0],
                                           inputs, input_shapes))

\* UnaryTransform._compute_shape
UnaryTransform_compute_shape(transform_, A_shape) == output_shape(transform_, A_shape)

\* shapes_equal / shape_is_scalar of elbow.util
shapes_equal(s1, s2) == s1 = s2
shape_is_scalar(shape) == Len(shape) = 0

\* the loop of UnaryTransform.__init__ over A.input_shapes: the inputs of A's
\* own shape go through the transform, the scalar ones are kept, the others
\* are dropped; an input that is a node and not a tensor cannot be transformed
SameShaped(A) ==
    {i \in DOMAIN A.input_shapes : shapes_equal(A.input_shapes[i], A.shape)}
ScalarShaped(A) ==
    {i \in DOMAIN A.input_shapes \ SameShaped(A) : shape_is_scalar(A.input_shapes[i])}
Collected(A, out) ==
    IF \E i \in DOMAIN A.input_shapes : i \notin DOMAIN A THEN Raise("AttributeError")
    ELSE IF \E i \in DOMAIN out : ~IsOk(out[i])
    THEN Raise(out[CHOOSE i \in DOMAIN out : ~IsOk(out[i])].st)
    ELSE [st |-> "ok",
          ret |-> <<[i \in DOMAIN out \cup ScalarShaped(A) |->
                        IF i \in DOMAIN out THEN Val(out[i]) ELSE A[i]]>>]
PassThrough(A, transform_) ==
    Collected(A, [i \in SameShaped(A) |->
                     IF i \in DOMAIN A.inputs_random THEN Raise("TypeError")
                     ELSE transform(transform_, A[i], FALSE)])

\* super(UnaryTransform, self).__init__(A=A, **kwargs) and self.transform
UnaryTransform_super_init(A, transform_, name, shape) ==
    WithAttrs([A |-> A, transform |-> transform_],
              ConditionalDistribution_init("UnaryTransform", name, shape, [A |-> A],
                                           [a \in {} |-> 0], [A |-> A.shape]))

\* the body of UnaryTransform.__init__ that passes the parameters through
\* whether or not the transform is structural
UnaryTransform_init_body_AlwaysPass(A, transform_, name, shape, transformed) ==
    IF ~IsOk(shape) THEN Raise(shape.st)
    ELSE IF ~IsOk(transformed) THEN Raise(transformed.st)
    ELSE [st |-> "ok",
          ret |-> <<DerivedOrNone(derived_parameters(A, Val(transformed)))
                    @@ Val(transformed)
                    @@ UnaryTransform_super_init(A, transform_, name, Val(shape))>>]

\* the body of UnaryTransform.__init__, given the shape _compute_shape
\* returns and the outcome of the loop over the inputs
UnaryTransform_init_body(A, transform_, name, shape, transformed) ==
    IF ~IsOk(shape) THEN Raise(shape.st)
    ELSE IF ~is_structural(transform_)
    THEN [st |-> "ok",
          ret |-> <<UnaryTransform_super_init(A, transform_, name, Val(shape))>>]
    ELSE IF ~IsOk(transformed) THEN Raise(transformed.st)
    ELSE [st |-> "ok",
          ret |-> <<DerivedOrNone(derived_parameters(A, Val(transformed)))
                    @@ Val(transformed)
                    @@ UnaryTransform_super_init(A, transform_, name, Val(shape))>>]

\* UnaryTransform.__init__(A, transform, name=name)
UnaryTransform_init(A, transform_, name) ==
    UnaryTransform_init_body(A, transform_, name,
                             UnaryTransform_compute_shape(transform_, A.shape),
                             PassThrough(A, transform_))

\* a node of the graph refers to its parent by name
InGraph(node, parent) ==
    [node EXCEPT !.inputs_random = [A |-> parent], !.A = parent]

\* ------------------------------------------------------------------------
\* The catalog of elbow/elementary.py and TransformedDistribution: default_q
\* ------------------------------------------------------------------------
\* inputs() of each class
Inputs(kind) ==
    IF kind \in {"Gaussian"} THEN {"mean", "std"}
    ELSE IF kind = "MVGaussian" THEN {"mean", "cov"}
    ELSE IF kind = "Laplace" THEN {"loc", "scale"}
    ELSE IF kind = "ContinuousUniform" THEN {"min_range", "max_range"}
    ELSE IF kind \in {"GammaMatrix", "BetaMatrix"} THEN {"alpha", "beta"}
    ELSE IF kind = "DirichletMatrix" THEN {"alpha"}
    ELSE {"p"}

\* _input_shape(param): MVGaussian's cov is (n, n), any other input has the
\* node's own shape
Node_input_shape(kind, param, shape) ==
    IF kind = "MVGaussian" /\ param = "cov" THEN <<shape[1], shape[1]>> ELSE shape

\* a free parameter of a posterior node, as its initializer leaves it
FreeParameter(shape) == [i \in 1..shape[1] |-> [j \in 1..shape[2] |-> Scale]]

\* the name given to a node constructed without name
AutoName == "unnamed"

\* kind(shape=shape, name=name): every input is a free parameter
FreeNode(kind, name, shape) ==
    CatalogNode(kind, name, shape,
                [i \in Inputs(kind) |-> FreeParameter(Node_input_shape(kind, i, shape))],
                [i \in Inputs(kind) |-> Node_input_shape(kind, i, shape)])

\* TransformedDistribution._compute_shape
TransformedDistribution_compute_shape(dist, transform_) ==
    output_shape(transform_, dist.shape)

\* the loop of TransformedDistribution.__init__ over dist.input_shapes: an
\* input of the shape of dist is passed through a structural transform, any
\* other attribute is deleted
TransformedDistribution_attrs(dist, transform_) ==
    IF is_structural(transform_)
    THEN Collected([input_shapes |-> [i \in SameShaped(dist) |-> dist.shape]] @@ dist,
                   [i \in SameShaped(dist) |-> transform(transform_, dist[i], FALSE)])
    ELSE [st |-> "ok", ret |-> <<[a \in {} |-> 0]>>]

\* the body of TransformedDistribution.__init__ for dist an instance
TransformedDistribution_init_body(dist, transform_, name, shape, attrs) ==
    IF ~IsOk(shape) THEN Raise(shape.st)
    ELSE IF ~IsOk(attrs) THEN Raise(attrs.st)
    ELSE [st |-> "ok",
          ret |-> <<WithAttrs(Val(attrs) @@ [dist |-> dist, transform |-> transform_],
                       ConditionalDistribution_init("TransformedDistribution", name,
                           Val(shape), dist.inputs_random, dist.inputs_nonrandom,
                           [a \in {} |-> 0]))>>]

\* TransformedDistribution.__init__(dist, transform, name=name), dist an instance
TransformedDistribution_init(dist, transform_, name) ==
    TransformedDistribution_init_body(dist, transform_, name,
        TransformedDistribution_compute_shape(dist, transform_),
        TransformedDistribution_attrs(dist, transform_))

\* TransformedDistribution.__init__(dist, transform, shape=shape, name=name),
\* dist a class: dist(shape=transform.input_shape(shape)) is instantiated
TransformedDistribution_init_class(kind, transform_, name, inp_shape) ==
    IF ~IsOk(inp_shape) THEN Raise(inp_shape.st)
    ELSE TransformedDistribution_init(FreeNode(kind, AutoName, Val(inp_shape)),
                                      transform_, name)

\* Gaussian.default_q, Laplace.default_q, BernoulliMatrix.default_q: a node
\* of the same class; ContinuousUniform.default_q: a Gaussian
Gaussian_default_q(self) ==
    [st |-> "ok", ret |-> <<FreeNode("Gaussian", "q_" \o self.name, self.shape)>>]
Laplace_default_q(self) ==
    [st |-> "ok", ret |-> <<FreeNode("Laplace", "q_" \o self.name, self.shape)>>]
BernoulliMatrix_default_q(self) ==
    [st |-> "ok", ret |-> <<FreeNode("BernoulliMatrix", "q_" \o self.name, self.shape)>>]
ContinuousUniform_default_q(self) ==
    [st |-> "ok", ret |-> <<FreeNode("Gaussian", "q_" \o self.name, self.shape)>>]

\* GammaMatrix.default_q with the transform of BetaMatrix.default_q
GammaMatrix_default_q_Logit(self) ==
    TransformedDistribution_init(FreeNode("Gaussian", AutoName, self.shape), Logit,
                                 "q_" \o self.name)

\* GammaMatrix.default_q
GammaMatrix_default_q(self) ==
    TransformedDistribution_init(FreeNode("Gaussian", AutoName, self.shape), Exp,
                                 "q_" \o self.name)

\* BetaMatrix.default_q
BetaMatrix_default_q(self) ==
    TransformedDistribution_init(FreeNode("Gaussian", AutoName, self.shape), Logit,
                                 "q_" \o self.name)

\* DirichletMatrix.default_q: n, k = self.shape
DirichletMatrix_default_q(self) ==
    IF Len(self.shape) # 2 THEN Raise("ValueError")
    ELSE TransformedDistribution_init(
             FreeNode("Gaussian", AutoName, <<self.shape[1], self.shape[2]>>), Simplex,
             "q_" \o self.name)

\* the classes without default_q of their own (MVGaussian, MultinomialMatrix)
ConditionalDistribution_default_q(self) == Raise("Exception")

RECURSIVE Node_default_q(_)

\* the second statement of TransformedDistribution.default_q
TransformedDistribution_default_q_wrap(self, dvm) ==
    IF ~IsOk(dvm) THEN Raise(dvm.st)
    ELSE TransformedDistribution_init(Val(dvm), self.transform, "q_" \o self.name)

\* TransformedDistribution.default_q that wraps the posterior without the
\* transform's change of shape
TransformedDistribution_default_q_NoTransform(self) ==
    Node_default_q([self.dist EXCEPT !.name = self.name])

\* TransformedDistribution.default_q
TransformedDistribution_default_q(self) ==
    TransformedDistribution_default_q_wrap(self, Node_default_q(self.dist))

\* self.default_q() of a stochastic node, by its class
Node_default_q(self) ==
    IF self.kind = "Gaussian" THEN Gaussian_default_q(self)
    ELSE IF self.kind = "Laplace" THEN Laplace_default_q(self)
    ELSE IF self.kind = "BernoulliMatrix" THEN BernoulliMatrix_default_q(self)
    ELSE IF self.kind = "ContinuousUniform" THEN ContinuousUniform_default_q(self)
    ELSE IF self.kind = "GammaMatrix" THEN GammaMatrix_default_q(self)
    ELSE IF self.kind = "BetaMatrix" THEN BetaMatrix_default_q(self)
    ELSE IF self.kind = "DirichletMatrix" THEN DirichletMatrix_default_q(self)
    ELSE IF self.kind = "TransformedDistribution"
    THEN TransformedDistribution_default_q(self)
    ELSE ConditionalDistribution_default_q(self)

RECURSIVE default_q(_, _, _)

\* n.q_distribution(): the attached posterior, or else the default one
q_distribution(g, n) ==
    IF g[n].q # None THEN [st |-> "ok", ret |-> <<g[n].q>>]
    ELSE default_q(g, n, [a \in {} |-> 0])

\* the second statement of UnaryTransform.default_q
UnaryTransform_default_q_wrap(self, q_A) ==
    IF ~IsOk(q_A) THEN Raise(q_A.st)
    ELSE UnaryTransform_init(Val(q_A), self.transform, "q_" \o self.name)

\* UnaryTransform.default_q that gives the node a posterior of its own
UnaryTransform_default_q_Fresh(g, n) == Gaussian_default_q(g[n])

\* UnaryTransform.default_q
UnaryTransform_default_q(g, n) ==
    UnaryTransform_default_q_wrap(g[n], q_distribution(g, g[n].inputs_random["A"]))

\* _compute_shape of the deterministic transform d: the shape of its input
Deterministic_compute_shape(A_shape) == A_shape

\* type(self)(name=name, **qs) of DeterministicTransform.default_q, qs the
\* outcomes of q_distribution() updated by the constants and by kwargs
DeterministicTransform_default_q_build(self, qs, kwargs) ==
    IF \E i \in DOMAIN qs : ~IsOk(qs[i])
    THEN Raise(qs[CHOOSE i \in DOMAIN qs : ~IsOk(qs[i])].st)
    ELSE [st |-> "ok",
          ret |-> <<ConditionalDistribution_init(self.kind, "q_" \o self.name,
                       Deterministic_compute_shape(self.shape),
                       [i \in DOMAIN qs \ DOMAIN kwargs |-> Val(qs[i])],
                       kwargs @@ self.inputs_nonrandom,
                       self.input_shapes)>>]

\* DeterministicTransform.default_q(**kwargs)
DeterministicTransform_default_q(g, n, kwargs) ==
    DeterministicTransform_default_q_build(g[n],
        [i \in DOMAIN g[n].inputs_random |-> q_distribution(g, g[n].inputs_random[i])],
        kwargs)

\* n.default_q(**kwargs) by the class of the node
default_q(g, n, kwargs) ==
    IF g[n].kind = "DeterministicTransform"
    THEN DeterministicTransform_default_q(g, n, kwargs)
    ELSE IF g[n].kind \in {"UnaryTransform", "ContinuousUniform"} /\ DOMAIN kwargs # {}
    THEN Raise("TypeError")
    ELSE IF g[n].kind = "UnaryTransform" THEN UnaryTransform_default_q(g, n)
    ELSE Node_default_q(g[n])

\* ------------------------------------------------------------------------
\* DirichletMatrix (elbow/elementary.py): construction and _sample.  alpha is
\* given with its shape, a tuple of one or two dimensions; a tensor of one
\* dimension is held as a matrix of one row.
\* ------------------------------------------------------------------------
\* DirichletMatrix._compute_shape
DirichletMatrix_compute_shape(alpha_shape) == alpha_shape

\* DirichletMatrix.__init__ after the shape is computed: self.N, self.K =
\* self.shape unpacks two dimensions
DirichletMatrix_init_body(alpha, name, shape) ==
    IF Len(shape) # 2 THEN Raise("ValueError")
    ELSE [st |-> "ok",
          ret |-> <<WithAttrs([N |-> shape[1], K |-> shape[2]],
                              CatalogNode("DirichletMatrix", name, shape,
                                          [alpha |-> alpha], [alpha |-> shape]))>>]

\* DirichletMatrix(alpha, name=name)
DirichletMatrix_init(alpha, alpha_shape, name) ==
    DirichletMatrix_init_body(alpha, name, DirichletMatrix_compute_shape(alpha_shape))

\* tf.squeeze: the dimensions of size one are dropped
Squeezed(shape) == SelectSeq(shape, LAMBDA d : d # 1)

\* RowNormalize.transform of a vector, held as one row: n, k = extract_shape
\* raises ValueError and the whole vector is divided by its sum
RowNormalize_transform_vector(v) == [j \in 1..Len(v) |-> DivFx(v[j], SumSeq(v))]

\* every entry of a matrix, row after row
RECURSIVE Flattened(_)
Flattened(m) == IF Len(m) = 0 THEN <<>> ELSE m[1] \o Flattened(Tail(m))

\* DirichletMatrix._sample given the gamma draws, of the node's shape: the
\* value returned and its shape.  Squeezed to no dimension at all, the draws
\* fail both unpackings of RowNormalize.transform.
DirichletMatrix_sample(self, gammas) ==
    IF Len(Squeezed(self.shape)) = 2
    THEN [st |-> "ok", ret |-> <<Val(RowNormalize_transform(gammas, FALSE)), self.shape>>]
    ELSE IF Len(Squeezed(self.shape)) = 1
    THEN [st |-> "ok",
          ret |-> <<(<<RowNormalize_transform_vector(Flattened(gammas))>>),
                    Squeezed(self.shape)>>]
    ELSE Raise("ValueError")

\* ------------------------------------------------------------------------
\* Laplace and Gaussian densities and entropies (elbow/elementary.py,
\* elbow/util/dists.py) on matrices
\* ------------------------------------------------------------------------
\* Laplace._logp
Laplace_logp(result, loc, scale) ==
    NegFx(ReduceSum([i \in 1..NRows(result) |-> [j \in 1..NCols(result) |->
        SubFx(DivFx(Abs(SubFx(result[i][j], loc[i][j])), scale[i][j]),
              LnFx(MulInt(2, scale[i][j])))]]))

\* Laplace._entropy
Laplace_entropy(loc, scale) ==
    AddFx(Scale, ReduceSum([i \in 1..NRows(scale) |-> [j \in 1..NCols(scale) |->
        LnFx(MulInt(2, scale[i][j]))]]))

\* gaussian_entropy(variance=variance)
gaussian_entropy(variance) ==
    ReduceSum([i \in 1..NRows(variance) |-> [j \in 1..NCols(variance) |->
        MulFx(Half, AddFx(AddFx(Scale, LnFx(TwoPiFx)), LnFx(variance[i][j])))]])

\* Gaussian._entropy: tf.ones(self.shape) * std**2 broadcasts a scalar std
Gaussian_entropy(self, std) ==
    gaussian_entropy([i \in 1..self.shape[1] |-> [j \in 1..self.shape[2] |->
        IF NRows(std) = 1 /\ NCols(std) = 1 THEN MulFx(std[1][1], std[1][1])
        ELSE MulFx(std[i][j], std[i][j])]])

\* dist._entropy(**kwargs) and dist._logp(result, **kwargs) of the wrapped
\* distribution, with the values of its parameters
Node_entropy(dist, kwargs) ==
    IF dist.kind = "Laplace" THEN Laplace_entropy(kwargs.loc, kwargs.scale)
    ELSE Gaussian_entropy(dist, kwargs.std)
Node_logp(dist, result, kwargs) ==
    IF dist.kind = "Laplace" THEN Laplace_logp(result, kwargs.loc, kwargs.scale)
    ELSE Gaussian_logp(Flattened(result), Flattened(kwargs.mean), Flattened(kwargs.std))

\* ------------------------------------------------------------------------
\* TransformedDistribution (elbow/transforms.py): sampling, density, entropy.
\* The attributes _sampled and _sampled_entropy of the wrapped distribution
\* and _sampled_log_jacobian of the node are the fields sampled,
\* sampled_entropy and sampled_log_jacobian.
\* ------------------------------------------------------------------------
\* _sample_and_entropy given the outcome of transform.transform(
\* self.dist._sampled, return_log_jac=True): the node as the call leaves it
\* and what the call returns
TransformedDistribution_sample_and_entropy_body(self, transformed) ==
    IF ~IsOk(transformed) THEN [st |-> transformed.st, ret |-> <<>>, self |-> self]
    ELSE [st |-> "ok",
          ret |-> <<Val(transformed),
                    AddFx(self.dist.sampled_entropy, LogJac(transformed))>>,
          self |-> [sampled_log_jacobian |-> LogJac(transformed)] @@ self]

\* _sample_and_entropy that returns the entropy without recording the
\* log-Jacobian
TransformedDistribution_sample_and_entropy_NotRecorded(self) ==
    IF "sampled" \notin DOMAIN self.dist
    THEN [st |-> "AttributeError", ret |-> <<>>, self |-> self]
    ELSE [self |-> self] @@
         TransformedDistribution_sample_and_entropy_body(
             self, transform(self.transform, self.dist.sampled, TRUE))

\* TransformedDistribution._sample_and_entropy
TransformedDistribution_sample_and_entropy(self) ==
    IF "sampled" \notin DOMAIN self.dist
    THEN [st |-> "AttributeError", ret |-> <<>>, self |-> self]
    ELSE TransformedDistribution_sample_and_entropy_body(
             self, transform(self.transform, self.dist.sampled, TRUE))

\* TransformedDistribution._sample given the draw ds of self.dist._sample
TransformedDistribution_sample(self, ds) == transform(self.transform, ds, FALSE)

\* _logp given the outcome of transform.inverse(result, return_log_jac=True)
TransformedDistribution_logp_body(self, inverted, kwargs) ==
    IF ~IsOk(inverted) THEN Raise(inverted.st)
    ELSE [st |-> "ok",
          ret |-> <<AddFx(Node_logp(self.dist, Val(inverted), kwargs), LogJac(inverted))>>]

\* TransformedDistribution._logp
TransformedDistribution_logp(self, result, kwargs) ==
    TransformedDistribution_logp_body(self, inverse(self.transform, result, TRUE), kwargs)

\* TransformedDistribution._entropy
TransformedDistribution_entropy(self, kwargs) ==
    IF "sampled_log_jacobian" \notin DOMAIN self THEN Raise("AttributeError")
    ELSE [st |-> "ok",
          ret |-> <<AddFx(Node_entropy(self.dist, kwargs), self.sampled_log_jacobian)>>]

\* ------------------------------------------------------------------------
\* Log-densities of ContinuousUniform, BernoulliMatrix and MultinomialMatrix
\* (elbow/elementary.py, elbow/util/dists.py).  Probabilities are fixed-point
\* numbers between 0 and Scale; the lower clip bound 1e-37 is one quantum.
\* ------------------------------------------------------------------------
ProbClipLo == 1

\* tf.log(tf.clip_by_value(v, 1e-37, 1.0))
ClippedLogProb(v) == LnFx(ClipFx(v, ProbClipLo, Scale))

\* an operator applied to two tensors of one shape, element by element
Elementwise(Op(_, _), a, b) ==
    [i \in 1..NRows(a) |-> [j \in 1..NCols(a) |-> Op(a[i][j], b[i][j])]]

\* ContinuousUniform._logp that is minus infinity for a result out of bounds
ContinuousUniform_logp_Bounded(result, min_range, max_range) ==
    IF \E i \in 1..NRows(result) : \E j \in 1..NCols(result) :
          result[i][j] < min_range[i][j] \/ result[i][j] > max_range[i][j]
    THEN NegInf
    ELSE NegFx(ReduceSum(Elementwise(LAMBDA a, b : LnFx(SubFx(a, b)),
                                     max_range, min_range)))

\* ContinuousUniform._logp
ContinuousUniform_logp(result, min_range, max_range) ==
    NegFx(ReduceSum(Elementwise(LAMBDA a, b : LnFx(SubFx(a, b)), max_range, min_range)))

\* bernoulli_entropy(p, cross_q=cross_q), one entry per element
bernoulli_entropy(p, cross_q) ==
    Elementwise(LAMBDA pv, qv :
                    SubFx(MulFx(NegFx(pv), ClippedLogProb(qv)),
                          MulFx(SubFx(Scale, pv), ClippedLogProb(SubFx(Scale, qv)))),
                p, cross_q)

\* multinomial_entropy(p, cross_q=cross_q), one entry per row
multinomial_entropy(p, cross_q) ==
    [i \in 1..NRows(p) |->
        NegFx(SumSeq([j \in 1..NCols(p) |-> MulFx(p[i][j], ClippedLogProb(cross_q[i][j]))]))]

\* bernoulli_log_density(x, p), one entry per element
bernoulli_log_density(x_, p) ==
    Elementwise(LAMBDA xv, pv :
                    AddFx(MulFx(xv, ClippedLogProb(pv)),
                          MulFx(SubFx(Scale, xv), ClippedLogProb(SubFx(Scale, pv)))),
                x_, p)

\* BernoulliMatrix._logp
BernoulliMatrix_logp(result, p) == ReduceSum(bernoulli_log_density(result, p))

\* BernoulliMatrix._expected_logp: the posterior without probabilities raises
\* in the try block and the density of its sample is returned instead
BernoulliMatrix_expected_logp(qr, qp) ==
    IF "p" \in DOMAIN qr
    THEN NegFx(ReduceSum(bernoulli_entropy(qr.p, qp.sampled)))
    ELSE BernoulliMatrix_logp(qr.sampled, qp.sampled)

\* MultinomialMatrix._expected_logp with the sum of the entropies negated
MultinomialMatrix_expected_logp_Negated(qr, qp) ==
    IF "p" \notin DOMAIN qr THEN Raise("AttributeError")
    ELSE [st |-> "ok", ret |-> <<NegFx(SumSeq(multinomial_entropy(qr.p, qp.sampled)))>>]

\* MultinomialMatrix._expected_logp
MultinomialMatrix_expected_logp(qr, qp) ==
    IF "p" \notin DOMAIN qr THEN Raise("AttributeError")
    ELSE [st |-> "ok", ret |-> <<SumSeq(multinomial_entropy(qr.p, qp.sampled))>>]

\* ------------------------------------------------------------------------
\* State
\* ------------------------------------------------------------------------
VARIABLES
    T,               \* the transform class the calls are made on
    x,               \* the input matrix
    return_log_jac,  \* the keyword the value calls are made with
    pc,              \* the last call made
    out_shape,       \* result of T.output_shape(shape of x)
    in_shape,        \* result of T.input_shape(out_shape)
    structural,      \* result of T.is_structural()
    fwd,             \* result of T.transform(x)
    back,            \* result of T.inverse(value of fwd)
    again,           \* result of T.transform(value of back)
    q_result,        \* posterior node on the Gaussian node's result
    q_mean,          \* posterior node on its mean parent, or None
    q_std,           \* posterior node on its std parent, or None
    inputs_nonrandom,\* the constant inputs of the Gaussian node
    elp,             \* result of Gaussian._expected_logp
    graph,           \* the nodes of the model, by name
    call             \* the last call made on a node of the graph

tvars == <<T, x, return_log_jac, pc, out_shape, in_shape, structural, fwd, back, again>>
gvars == <<q_result, q_mean, q_std, inputs_nonrandom, elp>>
nvars == <<graph, call>>
xvars == <<nvars>>
vars == <<T, x, return_log_jac, pc, out_shape, in_shape, structural, fwd, back, again,
          q_result, q_mean, q_std, inputs_nonrandom, elp, graph, call>>

NotCalled == [st |-> "none", ret |-> <<>>]

\* the parts of the state a specification does not use
TransformIdle ==
    /\ T = [k |-> "Base", name |-> "Transpose", ts |-> <<>>]
    /\ x = <<>> /\ return_log_jac = FALSE /\ pc = "idle"
    /\ out_shape = NotCalled /\ in_shape = NotCalled /\ structural = NotCalled
    /\ fwd = NotCalled /\ back = NotCalled /\ again = NotCalled
GaussianIdle ==
    /\ q_result = <<>> /\ q_mean = <<>> /\ q_std = <<>>
    /\ inputs_nonrandom = <<>> /\ elp = NotCalled
NoCall == [op |-> "none", n |-> "", arg |-> <<>>, st |-> "none", ret |-> <<>>]
NodeIdle == graph = <<>> /\ call = NoCall

\* ------------------------------------------------------------------------
\* Inputs
\* ------------------------------------------------------------------------
\* the classes of the library and some further compositions of them
BaseTransforms ==
    {Logit, RowNormalize, UnitColumn, RowNormalize1, Exp, Log1Exp, Square,
     Reciprocal, Transpose, Simplex, SimplexCol}
DerivedTransforms ==
    {Sqrt, Log, Reciprocal_Sqrt, Reciprocal_Square, Exp_Reciprocal, ColNormalize1,
     ColNormalize, Simplex1, Simplex1Col, Simplex_Raw, Simplex_Raw_Col}
FurtherTransforms ==
    {chain_transforms(<<Transpose, Transpose>>),
     chain_transforms(<<Transpose, RowNormalize1>>),
     chain_transforms(<<Log1Exp, Square>>),
     invert_transform(RowNormalize1),
     invert_transform(Transpose),
     invert_transform(Simplex1),
     invert_transform(invert_transform(Exp)),
     invert_transform(invert_transform(RowNormalize1)),
     invert_transform(invert_transform(Logit)),
     invert_transform(invert_transform(Simplex_Raw))}
Transforms == BaseTransforms \cup DerivedTransforms \cup FurtherTransforms

\* positive matrices of up to MaxRows x MaxCols entries on the half-unit grid
Matrix(n, k, b) ==
    [i \in 1..n |-> [j \in 1..k |-> Half * (1 + ((b + 2 * i + j) % MaxVal))]]
InputMatrices ==
    {Matrix(n, k, b) : n \in 1..MaxRows, k \in 1..MaxCols, b \in 0..(MaxVal - 1)}

extract_shape(m) == <<NRows(m), NCols(m)>>

\* vectors of the Gaussian node: a ramp or a constant on the half-unit grid
ElpVals == {Half * v : v \in 1..MaxElpVal}
Ramp(b, n) == [i \in 1..n |-> b + (i - 1) * Half]
Const(b, n) == [i \in 1..n |-> b]

\* posterior nodes of length n: a Gaussian (mean, std, variance), a Laplace
\* (loc, scale), a multivariate Gaussian (mean, cov, no variance)
GaussianQs(n) ==
    {[mean |-> Ramp(m, n), std |-> Const(s, n), variance |-> SquareV(Const(s, n)),
      sampled |-> Const(z, n)] : m \in ElpVals, s \in ElpVals, z \in ElpVals}
LaplaceQs(n) ==
    {[loc |-> Const(Half, n), scale |-> Const(Scale, n), sampled |-> Const(z, n)] :
        z \in ElpVals}
MVGaussianQs(n) ==
    {[mean |-> Ramp(m, n), cov |-> Scale, sampled |-> Const(z, n)] :
        m \in ElpVals, z \in ElpVals}
Posteriors(n) == GaussianQs(n) \cup LaplaceQs(n) \cup MVGaussianQs(n)

\* ------------------------------------------------------------------------
\* Calls on a transform class
\* ------------------------------------------------------------------------
Init ==
    /\ T \in Transforms
    /\ x \in InputMatrices
    /\ return_log_jac \in BOOLEAN
    /\ pc = "init"
    /\ out_shape = NotCalled /\ in_shape = NotCalled /\ structural = NotCalled
    /\ fwd = NotCalled /\ back = NotCalled /\ again = NotCalled
    /\ q_result = None /\ q_mean = None /\ q_std = None
    /\ inputs_nonrandom = None /\ elp = NotCalled
    /\ NodeIdle

CallOutputShape ==
    /\ pc = "init"
    /\ out_shape' = output_shape(T, extract_shape(x))
    /\ pc' = "output_shape"
    /\ UNCHANGED <<T, x, return_log_jac, in_shape, structural, fwd, back, again>>
    /\ UNCHANGED gvars
    /\ UNCHANGED xvars

CallInputShape ==
    /\ pc = "output_shape"
    /\ IsOk(out_shape)
    /\ in_shape' = input_shape(T, Val(out_shape))
    /\ pc' = "input_shape"
    /\ UNCHANGED <<T, x, return_log_jac, out_shape, structural, fwd, back, again>>
    /\ UNCHANGED gvars
    /\ UNCHANGED xvars

CallIsStructural ==
    /\ pc = "input_shape"
    /\ structural' = [st |-> "ok", ret |-> <<is_structural(T)>>]
    /\ pc' = "is_structural"
    /\ UNCHANGED <<T, x, return_log_jac, out_shape, in_shape, fwd, back, again>>
    /\ UNCHANGED gvars
    /\ UNCHANGED xvars

CallTransform ==
    /\ pc = "is_structural"
    /\ fwd' = transform(T, x, return_log_jac)
    /\ pc' = "transform"
    /\ UNCHANGED <<T, x, return_log_jac, out_shape, in_shape, structural, back, again>>
    /\ UNCHANGED gvars
    /\ UNCHANGED xvars

CallInverse ==
    /\ pc = "transform"
    /\ IsOk(fwd)
    /\ back' = inverse(T, Val(fwd), return_log_jac)
    /\ pc' = "inverse"
    /\ UNCHANGED <<T, x, return_log_jac, out_shape, in_shape, structural, fwd, again>>
    /\ UNCHANGED gvars
    /\ UNCHANGED xvars

CallTransformAgain ==
    /\ pc = "inverse"
    /\ IsOk(back)
    /\ again' = transform(T, Val(back), return_log_jac)
    /\ pc' = "retransform"
    /\ UNCHANGED <<T, x, return_log_jac, out_shape, in_shape, structural, fwd, back>>
    /\ UNCHANGED gvars
    /\ UNCHANGED xvars

Next ==
    \/ CallOutputShape
    \/ CallInputShape
    \/ CallIsStructural
    \/ CallTransform
    \/ CallInverse
    \/ CallTransformAgain

Spec == Init /\ [][Next]_vars

\* ------------------------------------------------------------------------
\* Calls of Gaussian._expected_logp
\* ------------------------------------------------------------------------
InitElp ==
    /\ T = Transpose /\ x = <<>> /\ return_log_jac = FALSE /\ pc = "idle"
    /\ out_shape = NotCalled /\ in_shape = NotCalled /\ structural = NotCalled
    /\ fwd = NotCalled /\ back = NotCalled /\ again = NotCalled
    /\ \E n \in 1..MaxLen :
          /\ q_result \in Posteriors(n)
          /\ q_mean \in Posteriors(n) \cup {None}
          /\ q_std \in {[sampled |-> Const(s, n)] : s \in ElpVals} \cup {None}
          /\ \E m \in ElpVals, s \in ElpVals :
                inputs_nonrandom =
                    [p \in (IF q_mean = None THEN {"mean"} ELSE {}) \cup
                           (IF q_std = None THEN {"std"} ELSE {}) |->
                        IF p = "mean" THEN Const(m, n) ELSE Const(s, n)]
    /\ elp = NotCalled
    /\ NodeIdle

CallExpectedLogp ==
    /\ elp = NotCalled
    /\ elp' = [st |-> "ok",
               ret |-> <<Gaussian_expected_logp(q_result, q_mean, q_std, inputs_nonrandom)>>]
    /\ UNCHANGED <<q_result, q_mean, q_std, inputs_nonrandom>>
    /\ UNCHANGED tvars
    /\ UNCHANGED xvars

NextElp == CallExpectedLogp

SpecElp == InitElp /\ [][NextElp]_vars

\* ------------------------------------------------------------------------
\* observe and attach_q on the nodes of a model: a Gaussian z, the unary
\* transforms u1 of z and u2 of u1, and a deterministic transform d of z
\* ------------------------------------------------------------------------
NodeShapes == {<<n, k>> : n \in 1..MaxRows, k \in 1..MaxCols}
NodeTransforms ==
    {Transpose, Exp, RowNormalize1, Simplex, chain_transforms(<<Transpose, Transpose>>)}
OuterTransforms == {Transpose, Exp, Simplex}
ObservedVals == {0, 1}

MatrixOf(shape, b) == Matrix(shape[1], shape[2], b)

GaussianNode(name, shape) ==
    CatalogNode("Gaussian", name, shape,
                [mean |-> MatrixOf(shape, 0), std |-> MatrixOf(shape, 1)],
                [mean |-> shape, std |-> shape])

NodeGraph(z, u1, u2, d) ==
    [n \in {"z", "u1", "u2", "d"} |->
        IF n = "z" THEN z
        ELSE IF n = "u1" THEN InGraph(u1, "z")
        ELSE IF n = "u2" THEN InGraph(u2, "u1")
        ELSE d]

\* the model once u2 is constructed
InitOuter(z, u1, u2) ==
    /\ IsOk(u2)
    /\ graph = NodeGraph(z, u1, Val(u2),
                   ConditionalDistribution_init("DeterministicTransform", "d", z.shape,
                       [A |-> "z"], [a \in {} |-> 0], [A |-> z.shape]))

\* the model once u1 is constructed
InitInner(z, u1, T2) ==
    /\ IsOk(u1)
    /\ InitOuter(z, Val(u1), UnaryTransform_init(Val(u1), T2, "u2"))

InitNode ==
    /\ TransformIdle /\ GaussianIdle
    /\ \E s \in NodeShapes, T1 \in NodeTransforms, T2 \in OuterTransforms :
          InitInner(GaussianNode("z", s),
                    UnaryTransform_init(GaussianNode("z", s), T1, "u1"), T2)
    /\ call = NoCall

\* the call op(arg) on node n has returned r
Returned(op, n, arg, r) ==
    /\ graph' = r.graph
    /\ call' = [op |-> op, n |-> n, arg |-> arg, st |-> r.st, ret |-> <<>>]
    /\ UNCHANGED <<tvars, gvars>>

\* node.observe(value) for a value of the node's shape
Observe ==
    \E n \in DOMAIN graph, b \in ObservedVals :
        Returned("observe", n, MatrixOf(graph[n].shape, b),
                 observe(graph, n, MatrixOf(graph[n].shape, b)))

\* the posteriors offered to a node: a Gaussian of the node's shape or of a
\* shape with one more column
OfferedQ(shape, extra) == GaussianNode("q", <<shape[1], shape[2] + extra>>)

\* node.attach_q(qdist)
AttachQ ==
    \E n \in DOMAIN graph, extra \in {0, 1} :
        Returned("attach_q", n, OfferedQ(graph[n].shape, extra),
                 attach_q(graph, n, OfferedQ(graph[n].shape, extra)))

NextNode ==
    \/ Observe
    \/ AttachQ

SpecNode == InitNode /\ [][NextNode]_vars

\* ------------------------------------------------------------------------
\* Construction of unary transforms over a node z and default_q: z is a node
\* of the catalog or a transformed distribution, d a deterministic transform
\* of z, u1 and u2 are added by UnaryTransform(z, T1) and UnaryTransform(u1, T2)
\* ------------------------------------------------------------------------
RowShape == <<1, MaxCols>>
CatalogKinds ==
    {"Gaussian", "Laplace", "BernoulliMatrix", "ContinuousUniform", "GammaMatrix",
     "BetaMatrix", "DirichletMatrix", "MVGaussian", "MultinomialMatrix"}

\* Gaussian nodes with matrix mean, and a std that is a matrix, a scalar or a
\* row to broadcast
GaussianRoots ==
    {GaussianNode("z", s) : s \in NodeShapes} \cup
    {CatalogNode("Gaussian", "z", s, [mean |-> MatrixOf(s, 0), std |-> ScalarTensor(Half)],
                 [mean |-> s, std |-> <<>>]) : s \in NodeShapes} \cup
    {CatalogNode("Gaussian", "z", <<2, k>>,
                 [mean |-> Matrix(2, k, 0), std |-> Matrix(1, k, 1)],
                 [mean |-> <<2, k>>, std |-> <<1, k>>]) : k \in 1..MaxCols}
\* a node of every class with constant inputs of its input shapes
CatalogRoots ==
    {CatalogNode(k, "z", RowShape,
                 [i \in Inputs(k) |-> MatrixOf(Node_input_shape(k, i, RowShape), 1)],
                 [i \in Inputs(k) |-> Node_input_shape(k, i, RowShape)]) :
        k \in CatalogKinds}
\* transformed distributions over an instance and over the class Gaussian
TransformedResults ==
    {TransformedDistribution_init(GaussianNode(AutoName, RowShape), t, "z") :
        t \in {Transpose, Exp, RowNormalize1}} \cup
    {TransformedDistribution_init_class("Gaussian", t, "z", input_shape(t, RowShape)) :
        t \in {Transpose, RowNormalize1}} \cup
    {TransformedDistribution_init(FreeNode("MVGaussian", AutoName, RowShape), Exp, "z")}
TransformedRoots == {Val(r) : r \in {t \in TransformedResults : IsOk(t)}}
Roots == GaussianRoots \cup CatalogRoots \cup TransformedRoots

InitQ ==
    /\ TransformIdle /\ GaussianIdle
    /\ \E z \in Roots :
          graph = [n \in {"z", "d"} |->
                      IF n = "z" THEN z
                      ELSE ConditionalDistribution_init("DeterministicTransform", "d",
                               Deterministic_compute_shape(z.shape), [A |-> "z"],
                               [c |-> ScalarTensor(Scale)], [A |-> z.shape, c |-> <<>>])]
    /\ call = NoCall

\* UnaryTransform(parent, T, name=name) has returned or raised r
Constructed(name, parent, transform_, r) ==
    /\ graph' = IF IsOk(r) THEN (name :> InGraph(Val(r), parent)) @@ graph ELSE graph
    /\ call' = [op |-> "UnaryTransform", n |-> name, arg |-> transform_, st |-> r.st,
                ret |-> <<>>]
    /\ UNCHANGED <<tvars, gvars>>

\* u1 = UnaryTransform(z, T, name="u1")
AddUnary ==
    /\ "u1" \notin DOMAIN graph
    /\ \E t \in NodeTransforms :
          Constructed("u1", "z", t, UnaryTransform_init(graph["z"], t, "u1"))

\* u2 = UnaryTransform(u1, T, name="u2")
AddOuterUnary ==
    /\ "u1" \in DOMAIN graph /\ "u2" \notin DOMAIN graph
    /\ \E t \in OuterTransforms :
          Constructed("u2", "u1", t, UnaryTransform_init(graph["u1"], t, "u2"))

\* the keyword arguments default_q is called with: none, or a constant for A
Kwargs(shape) == {[a \in {} |-> 0], [A |-> MatrixOf(shape, 0)]}

\* n.default_q(**kwargs) has returned or raised r
ReturnedQ(n, kwargs, r) ==
    /\ call' = [op |-> "default_q", n |-> n, arg |-> kwargs, st |-> r.st,
                ret |-> IF IsOk(r) THEN Val(r) ELSE <<>>]
    /\ UNCHANGED graph
    /\ UNCHANGED <<tvars, gvars>>

DefaultQ ==
    \E n \in DOMAIN graph :
        \E kwargs \in Kwargs(graph[n].shape) :
            ReturnedQ(n, kwargs, default_q(graph, n, kwargs))

NextQ ==
    \/ AddUnary
    \/ AddOuterUnary
    \/ AttachQ
    \/ DefaultQ

SpecQ == InitQ /\ [][NextQ]_vars

\* ------------------------------------------------------------------------
\* Calls of the log-densities and of transforms on inputs beyond the clipping
\* ranges: each call is recorded in call, with arg the tuple of its arguments
\* in the order of the signature; the graph stays empty.  The functions are
\* pure: a call follows another one only to compare two results of one
\* function, for the same bounds (ContinuousUniform._logp) or for the same
\* matrix with other shifts of its rows (Simplex.transform)
\* ------------------------------------------------------------------------
Shifted(m, c) == [i \in 1..NRows(m) |-> [j \in 1..NCols(m) |-> AddFx(m[i][j], c[i])]]
RowConstants(n, vals) == [1..n -> vals]

\* bounds of a uniform region: a lower corner and positive widths
UniformLows == {NegFx(Scale), 0}
\* results inside the region and beyond either side of it
UniformOffsets == {NegFx(2 * Scale), 0, Scale}

\* probabilities, and rows of probabilities that sum to one
ProbVals == {0, Half, Scale}
ProbMatrices(shape) == [1..shape[1] -> [1..shape[2] -> ProbVals]]
ProbRows == {<<0, Scale>>, <<Half, Scale - Half>>, <<Scale, 0>>}
SimplexMatrices(n) == [1..n -> ProbRows]
\* posteriors on a Bernoulli result: with probabilities and a 0/1 sample, or
\* a posterior that has a sample only
BernoulliQs(shape) ==
    {[p |-> m, sampled |-> MatrixOf(shape, 0)] : m \in ProbMatrices(shape)} \cup
    {[sampled |-> [i \in 1..shape[1] |-> [j \in 1..shape[2] |-> b]]] : b \in {0, Scale}}

\* shifts of the rows of a Simplex input
SimplexShifts == {NegFx(Scale), 0, 100 * Scale}
\* entries within and beyond the ranges -88..88 and 1e-45..1e38
EdgeVals == {NegFx(100 * Scale), 0, Half, Scale, 100 * Scale}
EdgeMatrices == UNION {[1..1 -> [1..k -> EdgeVals]] : k \in 1..MaxCols}
ClippingTransforms == {Logit, Exp, Log1Exp, Square, Reciprocal, RowNormalize, RowNormalize1}

InitFn == TransformIdle /\ GaussianIdle /\ NodeIdle

Made(op, arg, r) == [op |-> op, n |-> "", arg |-> arg, st |-> r.st, ret |-> r.ret]

Computed(v) == [st |-> "ok", ret |-> <<v>>]

\* ContinuousUniform._logp(result, min_range, max_range)
CallUniformLogp ==
    \E shape \in NodeShapes, lo \in UniformLows, off \in UniformOffsets,
       b \in 0..(MaxVal - 1), c \in 0..(MaxVal - 1) :
        /\ \/ call.op = "none"
           \/ /\ call.op = "ContinuousUniform._logp"
              /\ call.arg[2] = [i \in 1..shape[1] |-> [j \in 1..shape[2] |-> lo]]
              /\ call.arg[3] = Shifted(MatrixOf(shape, b), [i \in 1..shape[1] |-> lo])
        /\ call' = Made("ContinuousUniform._logp",
             <<Shifted(MatrixOf(shape, c), [i \in 1..shape[1] |-> off]),
               [i \in 1..shape[1] |-> [j \in 1..shape[2] |-> lo]],
               Shifted(MatrixOf(shape, b), [i \in 1..shape[1] |-> lo])>>,
             Computed(ContinuousUniform_logp(
                 Shifted(MatrixOf(shape, c), [i \in 1..shape[1] |-> off]),
                 [i \in 1..shape[1] |-> [j \in 1..shape[2] |-> lo]],
                 Shifted(MatrixOf(shape, b), [i \in 1..shape[1] |-> lo]))))
        /\ UNCHANGED <<graph, tvars, gvars>>

\* BernoulliMatrix._expected_logp(q_result, q_p)
CallBernoulliExpectedLogp ==
    \E shape \in {<<1, k>> : k \in 1..MaxCols} :
        \E qr \in BernoulliQs(shape), pm \in ProbMatrices(shape) :
            /\ call = NoCall
            /\ call' = Made("BernoulliMatrix._expected_logp", <<qr, [sampled |-> pm]>>,
                            Computed(BernoulliMatrix_expected_logp(qr, [sampled |-> pm])))
            /\ UNCHANGED <<graph, tvars, gvars>>

\* MultinomialMatrix._expected_logp(q_result, q_p)
CallMultinomialExpectedLogp ==
    \E n \in 1..MaxRows :
        \E qm \in SimplexMatrices(n), pm \in SimplexMatrices(n) :
            /\ call = NoCall
            /\ call' = Made("MultinomialMatrix._expected_logp",
                            <<[p |-> qm], [sampled |-> pm]>>,
                            MultinomialMatrix_expected_logp([p |-> qm], [sampled |-> pm]))
            /\ UNCHANGED <<graph, tvars, gvars>>

\* Simplex.transform(x, return_log_jac=...) on a matrix with shifted rows
CallSimplexTransform ==
    \E m \in InputMatrices, rlj \in BOOLEAN :
        \E c \in RowConstants(NRows(m), SimplexShifts) :
            /\ \/ call.op = "none"
               \/ /\ call.op = "Simplex.transform"
                  /\ call.arg[2] = rlj
                  /\ NRows(call.arg[1]) = NRows(m) /\ NCols(call.arg[1]) = NCols(m)
                  /\ \E d \in RowConstants(NRows(m), SimplexShifts) :
                        call.arg[1] = Shifted(m, d)
            /\ call' = Made("Simplex.transform", <<Shifted(m, c), rlj>>,
                            transform(Simplex, Shifted(m, c), rlj))
            /\ UNCHANGED <<graph, tvars, gvars>>

\* C.transform(x, return_log_jac=...) of a class that applies exp or log
CallTransformAtEdge ==
    \E C \in ClippingTransforms, m \in EdgeMatrices, rlj \in BOOLEAN :
        /\ call = NoCall
        /\ call' = Made("transform", <<C, m, rlj>>, transform(C, m, rlj))
        /\ UNCHANGED <<graph, tvars, gvars>>

\* C.inverse(transformed, return_log_jac=...) of a class that applies exp or log
CallInverseAtEdge ==
    \E C \in ClippingTransforms, m \in EdgeMatrices, rlj \in BOOLEAN :
        /\ call = NoCall
        /\ call' = Made("inverse", <<C, m, rlj>>, inverse(C, m, rlj))
        /\ UNCHANGED <<graph, tvars, gvars>>

\* scales of a Laplace node: a common scale, or one scale per element
LaplaceScales == {Half, Scale, 2 * Scale}
LaplaceScaleMatrices(shape) ==
    {[i \in 1..shape[1] |-> [j \in 1..shape[2] |-> s]] : s \in LaplaceScales}
    \cup {MatrixOf(shape, b) : b \in 0..(MaxVal - 1)}

\* Laplace._logp(result, loc, scale)
CallLaplaceLogp ==
    \E shape \in NodeShapes, b \in 0..(MaxVal - 1), c \in 0..(MaxVal - 1) :
        \E sc \in LaplaceScaleMatrices(shape) :
            /\ call = NoCall
            /\ call' = Made("Laplace._logp", <<MatrixOf(shape, c), MatrixOf(shape, b), sc>>,
                            Computed(Laplace_logp(MatrixOf(shape, c), MatrixOf(shape, b), sc)))
            /\ UNCHANGED <<graph, tvars, gvars>>

\* Laplace._entropy(loc, scale)
CallLaplaceEntropy ==
    \E shape \in NodeShapes, b \in 0..(MaxVal - 1) :
        \E sc \in LaplaceScaleMatrices(shape) :
            /\ call = NoCall
            /\ call' = Made("Laplace._entropy", <<MatrixOf(shape, b), sc>>,
                            Computed(Laplace_entropy(MatrixOf(shape, b), sc)))
            /\ UNCHANGED <<graph, tvars, gvars>>

NextFn ==
    \/ CallUniformLogp
    \/ CallBernoulliExpectedLogp
    \/ CallMultinomialExpectedLogp
    \/ CallSimplexTransform
    \/ CallTransformAtEdge
    \/ CallInverseAtEdge
    \/ CallLaplaceLogp
    \/ CallLaplaceEntropy

SpecFn == InitFn /\ [][NextFn]_vars

\* ------------------------------------------------------------------------
\* Calls on a DirichletMatrix node and on a TransformedDistribution node
\* ------------------------------------------------------------------------
\* the shapes of a concentration alpha: a vector (K,) or a matrix (N, K)
AlphaShapes == {<<k>> : k \in 1..MaxCols} \cup NodeShapes
\* a concentration of the given shape with every entry a
AlphaOf(shape, a) ==
    IF Len(shape) = 1 THEN [j \in 1..shape[1] |-> a]
    ELSE [i \in 1..shape[1] |-> [j \in 1..shape[2] |-> a]]

IsKind(g, n, kind) == n \in DOMAIN g /\ g[n].kind = kind

InitDist == TransformIdle /\ GaussianIdle /\ NodeIdle

\* D = DirichletMatrix(alpha, name="D")
ConstructDirichlet ==
    \E shape \in AlphaShapes, a \in ElpVals :
        /\ graph = <<>>
        /\ \E r \in {DirichletMatrix_init(AlphaOf(shape, a), shape, "D")} :
              /\ call' = [op |-> "DirichletMatrix", n |-> "D",
                          arg |-> <<AlphaOf(shape, a), shape>>, st |-> r.st, ret |-> r.ret]
              /\ graph' = IF IsOk(r) THEN ("D" :> Val(r)) @@ graph ELSE graph
        /\ UNCHANGED <<tvars, gvars>>

\* D._sample(alpha) with the gamma draws of tf.random_gamma
DirichletSample ==
    \E b \in 0..(MaxVal - 1) :
        /\ IsKind(graph, "D", "DirichletMatrix")
        /\ \E r \in {DirichletMatrix_sample(graph["D"], MatrixOf(graph["D"].shape, b))} :
              call' = [op |-> "DirichletMatrix._sample", n |-> "D",
                       arg |-> <<MatrixOf(graph["D"].shape, b)>>, st |-> r.st, ret |-> r.ret]
        /\ UNCHANGED <<graph, tvars, gvars>>

\* D.default_q()
DirichletDefaultQ ==
    /\ IsKind(graph, "D", "DirichletMatrix")
    /\ \E r \in {DirichletMatrix_default_q(graph["D"])} :
          call' = [op |-> "DirichletMatrix.default_q", n |-> "D", arg |-> <<>>,
                   st |-> r.st, ret |-> r.ret]
    /\ UNCHANGED <<graph, tvars, gvars>>

\* the transforms wrapped around a distribution: those of the default
\* posteriors of GammaMatrix (Exp), BetaMatrix (Logit) and DirichletMatrix
\* (Simplex), and a structural one
WrappingTransforms == {Exp, Logit, Simplex, Transpose}
WrappedKinds == {"Gaussian", "Laplace"}
\* values of the parameters of the wrapped distribution
DistScales(shape) ==
    {[i \in 1..shape[1] |-> [j \in 1..shape[2] |-> Scale]], MatrixOf(shape, 1)}
DistKwargs(dist) ==
    IF dist.kind = "Laplace"
    THEN {[loc |-> MatrixOf(dist.shape, 0), scale |-> sc] : sc \in DistScales(dist.shape)}
    ELSE {[mean |-> MatrixOf(dist.shape, 0), std |-> sc] : sc \in DistScales(dist.shape)}
\* the entropy that comes with the b-th sample of the wrapped distribution
SampledEntropy(b) == Half * b

\* Q = TransformedDistribution(dist, T, name="Q"), dist a fresh node
ConstructTransformed ==
    \E kind \in WrappedKinds, tr \in WrappingTransforms, shape \in NodeShapes :
        /\ graph = <<>>
        /\ \E r \in {TransformedDistribution_init(FreeNode(kind, AutoName, shape), tr, "Q")} :
              /\ call' = [op |-> "TransformedDistribution", n |-> "Q",
                          arg |-> <<kind, tr, shape>>, st |-> r.st, ret |-> r.ret]
              /\ graph' = IF IsOk(r) THEN ("Q" :> Val(r)) @@ graph ELSE graph
        /\ UNCHANGED <<tvars, gvars>>

\* the wrapped distribution is sampled: Q.dist._sampled and
\* Q.dist._sampled_entropy are set
SampleDist ==
    \E b \in 0..(MaxVal - 1) :
        /\ IsKind(graph, "Q", "TransformedDistribution")
        /\ call' = [op |-> "dist._sample_and_entropy", n |-> "Q",
                    arg |-> <<MatrixOf(graph["Q"].dist.shape, b), SampledEntropy(b)>>,
                    st |-> "ok", ret |-> <<>>]
        /\ graph' = [graph EXCEPT !["Q"].dist =
                        [sampled |-> MatrixOf(graph["Q"].dist.shape, b),
                         sampled_entropy |-> SampledEntropy(b)] @@ @]
        /\ UNCHANGED <<tvars, gvars>>

\* Q._sample_and_entropy()
SampleAndEntropy ==
    /\ IsKind(graph, "Q", "TransformedDistribution")
    /\ \E r \in {TransformedDistribution_sample_and_entropy(graph["Q"])} :
          /\ call' = [op |-> "TransformedDistribution._sample_and_entropy", n |-> "Q",
                      arg |-> <<>>, st |-> r.st, ret |-> r.ret]
          /\ graph' = [graph EXCEPT !["Q"] = r.self]
    /\ UNCHANGED <<tvars, gvars>>

\* Q._sample(**kwargs) with the draw ds of Q.dist._sample(**kwargs)
Sample ==
    \E b \in 0..(MaxVal - 1) :
        /\ IsKind(graph, "Q", "TransformedDistribution")
        /\ \E r \in {TransformedDistribution_sample(graph["Q"],
                                                    MatrixOf(graph["Q"].dist.shape, b))} :
              call' = [op |-> "TransformedDistribution._sample", n |-> "Q",
                       arg |-> <<MatrixOf(graph["Q"].dist.shape, b)>>,
                       st |-> r.st, ret |-> r.ret]
        /\ UNCHANGED <<graph, tvars, gvars>>

\* Q._logp(result, **kwargs) for result = T.transform(x), a value in the
\* range of T
Logp ==
    \E b \in 0..(MaxVal - 1) :
        /\ IsKind(graph, "Q", "TransformedDistribution")
        /\ \E kwargs \in DistKwargs(graph["Q"].dist) :
              \E res \in {transform(graph["Q"].transform,
                                     MatrixOf(graph["Q"].dist.shape, b), FALSE)} :
              \E r \in {TransformedDistribution_logp(graph["Q"], Val(res), kwargs)} :
                  call' = [op |-> "TransformedDistribution._logp", n |-> "Q",
                           arg |-> <<Val(res), kwargs>>, st |-> r.st, ret |-> r.ret]
        /\ UNCHANGED <<graph, tvars, gvars>>

\* Q._entropy(**kwargs)
Entropy ==
    /\ IsKind(graph, "Q", "TransformedDistribution")
    /\ \E kwargs \in DistKwargs(graph["Q"].dist) :
          \E r \in {TransformedDistribution_entropy(graph["Q"], kwargs)} :
              call' = [op |-> "TransformedDistribution._entropy", n |-> "Q",
                       arg |-> <<kwargs>>, st |-> r.st, ret |-> r.ret]
    /\ UNCHANGED <<graph, tvars, gvars>>


NextDist ==
    \/ ConstructDirichlet
    \/ DirichletSample
    \/ DirichletDefaultQ
    \/ ConstructTransformed
    \/ SampleDist
    \/ SampleAndEntropy
    \/ Sample
    \/ Logp
    \/ Entropy

SpecDist == InitDist /\ [][NextDist]_vars

\* ------------------------------------------------------------------------
\* Properties of Gaussian._expected_logp (checked under SpecElp)
\* ------------------------------------------------------------------------
\* the posterior exposes both attributes that is_gaussian probes
HasMeanAndVariance(q) == {"mean", "variance"} \subseteq DOMAIN q
\* the value standing for the mean parent: its realized sample or the constant
MeanSide == IF q_mean = None THEN inputs_nonrandom["mean"] ELSE q_mean.sampled
\* the value standing for the std parent
StdSide == IF q_std = None THEN inputs_nonrandom["std"] ELSE q_std.sampled

\* C1: the branch of Gaussian._expected_logp is fixed by the pair
\* (is_gaussian(q_result), is_gaussian(q_mean)), q_mean = None counting as
\* non-Gaussian: with exactly one side Gaussian the result is the negated sum of
\* the closed-form cross-entropy of that side's (mean, variance) against the
\* other side's realized sample (or constant) with variance std^2; with neither
\* side Gaussian it is _logp at the samples of result, mean and std.
C1_DispatchByPair ==
    IsOk(elp) =>
        /\ (HasMeanAndVariance(q_result) /\ ~HasMeanAndVariance(q_mean)) =>
              Val(elp) = NegFx(SumSeq(gaussian_cross_entropy(
                              q_result.mean, q_result.variance, MeanSide, SquareV(StdSide))))
        /\ (~HasMeanAndVariance(q_result) /\ HasMeanAndVariance(q_mean)) =>
              Val(elp) = NegFx(SumSeq(gaussian_cross_entropy(
                              q_mean.mean, q_mean.variance, q_result.sampled,
                              SquareV(StdSide))))
        /\ (~HasMeanAndVariance(q_result) /\ ~HasMeanAndVariance(q_mean)) =>
              Val(elp) = Gaussian_logp(q_result.sampled, MeanSide, StdSide)

\* C1 witness: the call returned for a non-Gaussian result posterior and a
\* Gaussian posterior on the mean whose sample differs from the result's
C1_Witness ==
    /\ IsOk(elp)
    /\ ~HasMeanAndVariance(q_result)
    /\ HasMeanAndVariance(q_mean)
    /\ q_mean.sampled # q_result.sampled

\* the closed form E_q[log N(Z; M, sigma^2)] for Gaussian posteriors on Z and M:
\* sum of -( log(2 pi sigma^2) + ((E[M]-E[Z])^2 + Var[M] + Var[Z]) / sigma^2 ) / 2
ExpectedLogDensity(mz, vz, mm, vm, s2) ==
    SumSeq([i \in 1..Len(mz) |->
        LET d == SubFx(mm[i], mz[i])
        IN  MulFx(-Half, AddFx(LnFx(MulFx(TwoPiFx, s2[i])),
                               DivFx(AddFx(MulFx(d, d), AddFx(vm[i], vz[i])), s2[i])))])

\* C2 as stated: with both posteriors Gaussian the result is the negated
\* cross-entropy of the posterior on Z against a Gaussian of mean E[M] and
\* combined variance Var[M] + sigma^2.
C2_CombinedVarianceWithSigma ==
    (IsOk(elp) /\ HasMeanAndVariance(q_result) /\ HasMeanAndVariance(q_mean)) =>
        Abs(Val(elp) - NegFx(SumSeq(gaussian_cross_entropy(
                q_result.mean, q_result.variance, q_mean.mean,
                AddV(q_mean.variance, SquareV(StdSide)))))) <= Tol

\* C2 amended: with both posteriors Gaussian the result is the closed form
\* with the two posterior variances combined, Var[M] + Var[Z], measured
\* against sigma^2; it is a function of the posterior means and variances and
\* of sigma only, of neither posterior's realized sample.
C2_CombinedPosteriorVariances ==
    (IsOk(elp) /\ HasMeanAndVariance(q_result) /\ HasMeanAndVariance(q_mean)) =>
        Abs(Val(elp) - ExpectedLogDensity(q_result.mean, q_result.variance,
                                          q_mean.mean, q_mean.variance,
                                          SquareV(StdSide))) <= Tol

\* C2 witness: the call returned for two Gaussian posteriors whose samples
\* differ from their means
C2_Witness ==
    /\ IsOk(elp)
    /\ HasMeanAndVariance(q_result)
    /\ HasMeanAndVariance(q_mean)
    /\ q_result.sampled # q_result.mean
    /\ q_mean.sampled # q_mean.mean

\* ------------------------------------------------------------------------
\* Properties of the transform algebra (checked under Spec)
\* ------------------------------------------------------------------------
Called(r) == r.st # "none"

\* two matrices of one shape whose entries agree within the tolerance
CloseM(a, b) ==
    /\ NRows(a) = NRows(b)
    /\ NCols(a) = NCols(b)
    /\ \A i \in 1..NRows(a) : \A j \in 1..NCols(a) : Abs(a[i][j] - b[i][j]) <= Tol

\* the classes that define inverse themselves
InvertibleBases == {Logit, RowNormalize1, Exp, Log1Exp, Square, Reciprocal, Transpose}

\* C3 as stated, on the base classes that define both directions: inverse
\* undoes transform at every input, and transform undoes inverse at every
\* value of the range.
C3_InverseUndoesTransform ==
    (T \in InvertibleBases /\ ~return_log_jac) =>
        /\ Called(back) => (IsOk(back) /\ CloseM(Val(back), x))
        /\ Called(again) => (IsOk(again) /\ CloseM(Val(again), Val(fwd)))

\* C4 as stated: the log-Jacobian reported by transform at x is the negation
\* of the one reported by inverse at transform(x).
C4_LogJacobiansNegate ==
    (T \in InvertibleBases /\ return_log_jac /\ Called(back)) =>
        /\ HasLogJac(back)
        /\ Abs(LogJac(fwd) + LogJac(back)) <= Tol

\* Tn.transform(...T1.transform(v)...) for the first n classes of ts, n >= 1
RECURSIVE NestedTransform(_, _, _, _)
NestedTransform(ts, n, v, rlj) ==
    IF n = 1 THEN transform(ts[1], v, rlj)
    ELSE LET r == NestedTransform(ts, n - 1, v, rlj)
         IN  IF IsOk(r) THEN transform(ts[n], Val(r), rlj) ELSE r

\* Ti.inverse(...Tn.inverse(v)...) for the classes of ts from the i-th on
RECURSIVE NestedInverse(_, _, _, _)
NestedInverse(ts, i, v, rlj) ==
    IF i = Len(ts) THEN inverse(ts[i], v, rlj)
    ELSE LET r == NestedInverse(ts, i + 1, v, rlj)
         IN  IF IsOk(r) THEN inverse(ts[i], Val(r), rlj) ELSE r

\* the value the i-th class of the chain receives in the forward pass
StageInput(ts, i, v) == IF i = 1 THEN v ELSE Val(NestedTransform(ts, i - 1, v, FALSE))

\* every class of the chain, given the value it produced in the forward pass,
\* returns exactly the value it had received
EveryStageUndone(ts, v) ==
    \A i \in 1..Len(ts) :
        LET r == inverse(ts[i], StageInput(ts, i + 1, v), FALSE)
        IN  IsOk(r) /\ Val(r) = StageInput(ts, i, v)

SameOutcome(r, s) == r.st = s.st /\ (IsOk(r) => Val(r) = Val(s))

\* C5: a chain's transform is Tn.transform(...T1.transform(x)...), its inverse
\* is T1.inverse(...Tn.inverse(y)...), and the inverse returns x whenever every
\* class of the chain undoes its own stage.
C5_ChainOrder ==
    (T.k = "Chain") =>
        /\ Called(fwd) => SameOutcome(fwd, NestedTransform(T.ts, Len(T.ts), x, return_log_jac))
        /\ Called(back) =>
              /\ SameOutcome(back, NestedInverse(T.ts, 1, Val(fwd), return_log_jac))
              /\ EveryStageUndone(T.ts, x) => (IsOk(back) /\ Val(back) = x)

\* C5 witness: both directions of a chain of two classes that do not commute
C5_Witness == T = Exp_Reciprocal /\ IsOk(fwd) /\ IsOk(back)

\* the sum of the log-Jacobians the classes report, each at the value it
\* receives in the forward pass
RECURSIVE SumForwardLogJacs(_, _, _)
SumForwardLogJacs(ts, n, v) ==
    IF n = 0 THEN 0
    ELSE SumForwardLogJacs(ts, n - 1, v)
         + LogJac(transform(ts[n], StageInput(ts, n, v), TRUE))

\* the value the i-th class of the chain receives in the inverse pass
InverseStageInput(ts, i, y) ==
    IF i = Len(ts) THEN y ELSE Val(NestedInverse(ts, i + 1, y, FALSE))

RECURSIVE SumInverseLogJacs(_, _, _)
SumInverseLogJacs(ts, i, y) ==
    IF i > Len(ts) THEN 0
    ELSE SumInverseLogJacs(ts, i + 1, y)
         + LogJac(inverse(ts[i], InverseStageInput(ts, i, y), TRUE))

\* C6: with return_log_jac the chain reports the sum of its classes'
\* log-Jacobians, each evaluated at the intermediate value that class receives,
\* in transform and in inverse.
C6_ChainLogJacSum ==
    (T.k = "Chain" /\ return_log_jac) =>
        /\ IsOk(fwd) =>
              (HasLogJac(fwd) /\ LogJac(fwd) = SumForwardLogJacs(T.ts, Len(T.ts), x))
        /\ IsOk(back) =>
              (HasLogJac(back) /\ LogJac(back) = SumInverseLogJacs(T.ts, 1, Val(fwd)))

\* C6 witness: both log-Jacobians of a chain whose two classes both report a
\* non-zero one
C6_Witness ==
    /\ T = Simplex1 /\ return_log_jac /\ HasLogJac(fwd) /\ HasLogJac(back)
    /\ LogJac(transform(Exp, x, TRUE)) # 0
    /\ LogJac(fwd) # LogJac(transform(Exp, x, TRUE))

\* C7: a chain is structural exactly when every class in it is; the library's
\* Simplex1, Simplex_Raw, ColNormalize and ColNormalize1 are not.
C7_ChainStructuralIsAnd ==
    IsOk(structural) =>
        /\ (T.k = "Chain") =>
              (Val(structural) <=> \A i \in 1..Len(T.ts) : is_structural(T.ts[i]))
        /\ (T \in {Simplex1, Simplex_Raw, ColNormalize, ColNormalize1}) => ~Val(structural)

\* C7 witness: the flag of a chain that mixes structural and other classes
C7_Witness == T = ColNormalize1 /\ IsOk(structural) /\ ~Val(structural)

RECURSIVE NestedOutputShape(_, _, _)
NestedOutputShape(ts, n, s) ==
    IF n = 1 THEN output_shape(ts[1], s)
    ELSE LET r == NestedOutputShape(ts, n - 1, s)
         IN  IF IsOk(r) THEN output_shape(ts[n], Val(r)) ELSE r

RECURSIVE NestedInputShape(_, _, _)
NestedInputShape(ts, i, s) ==
    IF i = Len(ts) THEN input_shape(ts[i], s)
    ELSE LET r == NestedInputShape(ts, i + 1, s)
         IN  IF IsOk(r) THEN input_shape(ts[i], Val(r)) ELSE r

\* C8: a chain's output_shape is Tn.output_shape(...T1.output_shape(s)...) and
\* its input_shape is T1.input_shape(...Tn.input_shape(s)...); ColNormalize1
\* maps (n, k) to (n+1, k) and its input_shape maps that back to (n, k).
C8_ChainShapes ==
    /\ (T.k = "Chain" /\ Called(out_shape)) =>
          SameOutcome(out_shape, NestedOutputShape(T.ts, Len(T.ts), extract_shape(x)))
    /\ (T.k = "Chain" /\ Called(in_shape)) =>
          SameOutcome(in_shape, NestedInputShape(T.ts, 1, Val(out_shape)))
    /\ (T = ColNormalize1 /\ Called(out_shape)) =>
          (IsOk(out_shape) /\ Val(out_shape) = <<NRows(x) + 1, NCols(x)>>)
    /\ (T = ColNormalize1 /\ Called(in_shape)) =>
          (IsOk(in_shape) /\ Val(in_shape) = <<NRows(x), NCols(x)>>)

\* C8 witness: both shape maps of a chain whose classes change the shape
C8_Witness ==
    /\ T = chain_transforms(<<Transpose, RowNormalize1>>)
    /\ IsOk(out_shape) /\ IsOk(in_shape)
    /\ Val(out_shape) # extract_shape(x)

\* the five results agree with those of the calls made on S
BehavesAs(S) ==
    /\ Called(out_shape) => out_shape = output_shape(S, extract_shape(x))
    /\ Called(in_shape) => in_shape = input_shape(S, Val(out_shape))
    /\ Called(structural) => Val(structural) = is_structural(S)
    /\ Called(fwd) => fwd = transform(S, x, return_log_jac)
    /\ Called(back) => back = inverse(S, Val(fwd), return_log_jac)

\* C9: invert_transform(S) answers transform with S.inverse, inverse with
\* S.transform, output_shape with S.input_shape, input_shape with
\* S.output_shape and is_structural with S.is_structural; inverting twice
\* gives a class that behaves as S on all five operations.
C9_InvertSwaps ==
    (T.k = "Inverted") =>
        LET S == T.ts[1]
        IN  /\ Called(out_shape) => out_shape = input_shape(S, extract_shape(x))
            /\ Called(in_shape) => in_shape = output_shape(S, Val(out_shape))
            /\ Called(structural) => Val(structural) = is_structural(S)
            /\ Called(fwd) => fwd = inverse(S, x, return_log_jac)
            /\ Called(back) => back = transform(S, Val(fwd), return_log_jac)
            /\ (S.k = "Inverted") => BehavesAs(S.ts[1])

\* C9 witness: the five operations of a doubly inverted class that changes
\* the shape
C9_Witness ==
    /\ T = invert_transform(invert_transform(RowNormalize1))
    /\ IsOk(out_shape) /\ IsOk(in_shape) /\ IsOk(structural) /\ IsOk(fwd) /\ IsOk(back)
    /\ Val(out_shape) # extract_shape(x)

\* C10: for Transpose and Reciprocal inverse returns what transform returns
\* for the same arguments (value and log-Jacobian) and input_shape what
\* output_shape returns; transposing twice returns the matrix, and
\* output_shape twice returns the shape.
C10_SelfInverse ==
    (T \in {Transpose, Reciprocal}) =>
        /\ Called(back) => back = transform(T, Val(fwd), return_log_jac)
        /\ Called(in_shape) => in_shape = output_shape(T, Val(out_shape))
        /\ (T = Transpose /\ Called(back)) => (IsOk(back) /\ Val(back) = x)
        /\ (T = Transpose /\ Called(in_shape)) =>
              (IsOk(in_shape) /\ Val(in_shape) = extract_shape(x))

\* C10 witness: a matrix that is not square transposed twice, the
\* log-Jacobian asked for
C10_Witness ==
    /\ T = Transpose /\ return_log_jac /\ HasLogJac(back)
    /\ NRows(x) # NCols(x)
    /\ Val(fwd) # x

\* ------------------------------------------------------------------------
\* Deterministic-transform nodes of a model
\* ------------------------------------------------------------------------
IsDeterministicNode(node) == node.kind \in {"DeterministicTransform", "UnaryTransform"}

NoOwnPosteriorOrValue(g) ==
    \A n \in DOMAIN g :
        IsDeterministicNode(g[n]) => g[n].q = None /\ g[n].observed = None

\* C11: no deterministic-transform node ever holds a posterior or an observed
\* value of its own; attach_q on such a node raises and leaves the graph as it
\* was, and so does observe on a plain DeterministicTransform
C11_DeterministicNodesCarryNothing ==
    [][/\ NoOwnPosteriorOrValue(graph)
       /\ NoOwnPosteriorOrValue(graph')
       /\ (call'.op = "attach_q" /\ IsDeterministicNode(graph[call'.n]))
             => (call'.st = "Exception" /\ graph' = graph)
       /\ (call'.op = "observe" /\ graph[call'.n].kind = "DeterministicTransform")
             => (call'.st = "Exception" /\ graph' = graph)]_vars

\* a posterior of the right shape was offered to a unary transform, a value
\* to the plain deterministic transform is refused as well
C11_Witness ==
    /\ call.op = "attach_q"
    /\ graph[call.n].kind = "UnaryTransform"
    /\ call.arg.shape = graph[call.n].shape
    /\ call.st = "Exception"
    /\ graph["z"].observed # None

\* the stochastic ancestor a value observed on node n reaches, and the value
\* it arrives as: one inverse per unary transform on the way, outermost first
RECURSIVE PushedDown(_, _, _)
PushedDown(g, n, v) ==
    IF g[n].kind # "UnaryTransform" THEN [st |-> "ok", target |-> n, value |-> v]
    ELSE LET w == inverse(g[n].transform, v, FALSE)
         IN  IF IsOk(w) THEN PushedDown(g, g[n].inputs_random.A, Val(w))
             ELSE [st |-> w.st, target |-> n, value |-> v]

\* C12: observe(v) on a unary transform changes nothing but the observed value
\* of its stochastic ancestor, which becomes v pushed through the inverses,
\* outermost first; when an inverse on the way fails the call fails and no
\* node is changed
C12_ObservePushedThroughInverse ==
    [][(call'.op = "observe" /\ graph[call'.n].kind = "UnaryTransform") =>
          LET p == PushedDown(graph, call'.n, call'.arg)
          IN  IF p.st = "ok"
              THEN /\ call'.st = "ok"
                   /\ graph[p.target].kind = "Gaussian"
                   /\ graph' = [graph EXCEPT ![p.target].observed = p.value]
              ELSE /\ call'.st = p.st
                   /\ graph' = graph]_vars

\* a value observed on u2 has reached z through two different inverses
C12_Witness ==
    /\ call.op = "observe" /\ call.n = "u2" /\ call.st = "ok"
    /\ graph["u2"].transform = Transpose
    /\ graph["u1"].transform = RowNormalize1
    /\ graph["z"].observed =
          Val(inverse(RowNormalize1, Val(inverse(Transpose, call.arg, FALSE)), FALSE))
    /\ graph["z"].observed # call.arg

\* ------------------------------------------------------------------------
\* Default posteriors
\* ------------------------------------------------------------------------
PlainDefaultQ(n) == call.op = "default_q" /\ call.n = n /\ DOMAIN call.arg = {}

\* C13: default_q() of a node of each catalog family returns a node named
\* "q_" + name: a Gaussian, Laplace or BernoulliMatrix for these classes, a
\* Gaussian for ContinuousUniform, and a TransformedDistribution of a Gaussian
\* by Exp, Logit and Simplex for GammaMatrix, BetaMatrix and DirichletMatrix
C13_DefaultQFamilies ==
    LET z == graph["z"]
        q == call.ret
        IsTransformedGaussian(t) ==
            /\ q.kind = "TransformedDistribution"
            /\ q.dist.kind = "Gaussian"
            /\ q.transform = t
    IN  (PlainDefaultQ("z") /\ z.kind \in CatalogKinds \ {"MVGaussian", "MultinomialMatrix"})
        => /\ call.st = "ok"
           /\ q.name = "q_" \o z.name
           /\ z.kind \in {"Gaussian", "Laplace", "BernoulliMatrix"} => q.kind = z.kind
           /\ z.kind = "ContinuousUniform" => q.kind = "Gaussian"
           /\ z.kind = "GammaMatrix" => IsTransformedGaussian(Exp)
           /\ z.kind = "BetaMatrix" => IsTransformedGaussian(Logit)
           /\ z.kind = "DirichletMatrix" => IsTransformedGaussian(Simplex)

\* the default posterior of a GammaMatrix node has been built
C13_Witness ==
    /\ PlainDefaultQ("z") /\ graph["z"].kind = "GammaMatrix"
    /\ call.st = "ok" /\ call.ret.kind = "TransformedDistribution"
    /\ call.ret.name = "q_z"

\* C14: the posterior default_q synthesizes for a catalog node, a transformed
\* distribution or a unary transform has the shape of the node
C14_PosteriorHasNodeShape ==
    (call.op = "default_q" /\ call.st = "ok"
        /\ graph[call.n].kind # "DeterministicTransform")
    => call.ret.shape = graph[call.n].shape

\* the posterior of u2 = Transpose of u1 = RowNormalize1 of z, built from the
\* posterior attached to z: its shape is that of u2 and not that of z
C14_Witness ==
    /\ call.op = "default_q" /\ call.n = "u2" /\ call.st = "ok"
    /\ graph["z"].q # None
    /\ graph["u1"].transform = RowNormalize1
    /\ graph["u2"].transform = Transpose
    /\ call.ret.shape = <<graph["z"].shape[2] + 1, graph["z"].shape[1]>>
    /\ call.ret.shape # graph["z"].shape
    /\ call.ret.shape # graph["u1"].shape

\* node is the posterior of the node p of the graph: the one attached to p,
\* or the default one of p
RECURSIVE IsPosteriorOf(_, _, _)
IsPosteriorOf(g, node, p) ==
    IF g[p].q # None THEN node = g[p].q
    ELSE /\ node.name = "q_" \o g[p].name
         /\ node.shape = g[p].shape
         /\ IF g[p].kind = "UnaryTransform"
            THEN /\ node.kind = "UnaryTransform"
                 /\ node.transform = g[p].transform
                 /\ IsPosteriorOf(g, node.inputs_random.A, g[p].inputs_random.A)
            ELSE ~IsDeterministicNode(node)

\* C15: default_q() of a deterministic-transform node returns a node of the
\* same class with the same transform, named "q_" + name, whose random inputs
\* are the posteriors of the node's parents and whose constant inputs are the
\* node's constants: no free parameter of its own
C15_DeterministicDefaultQ ==
    (call.op = "default_q" /\ DOMAIN call.arg = {} /\ call.st = "ok"
        /\ IsDeterministicNode(graph[call.n]))
    => LET self == graph[call.n]
           q == call.ret
       IN  /\ q.kind = self.kind
           /\ q.name = "q_" \o self.name
           /\ self.kind = "UnaryTransform" => q.transform = self.transform
           /\ DOMAIN q.inputs_random = DOMAIN self.inputs_random
           /\ \A i \in DOMAIN self.inputs_random :
                 IsPosteriorOf(graph, q.inputs_random[i], self.inputs_random[i])
           /\ q.inputs_nonrandom = self.inputs_nonrandom

\* the default posterior of u2 over u1 over a GammaMatrix z: unary transforms
\* down to the transformed Gaussian that is the default posterior of z
C15_Witness ==
    /\ PlainDefaultQ("u2") /\ call.st = "ok"
    /\ graph["z"].kind = "GammaMatrix" /\ graph["z"].q = None
    /\ call.ret.kind = "UnaryTransform"
    /\ call.ret.inputs_random.A.kind = "UnaryTransform"
    /\ call.ret.inputs_random.A.inputs_random.A.kind = "TransformedDistribution"
    /\ graph["u1"].transform # graph["u2"].transform

\* ------------------------------------------------------------------------
\* Parameters passed through a unary transform
\* ------------------------------------------------------------------------
ExposedBy(U, A) ==
    LET tr == U.transform
        names == DOMAIN A.input_shapes
        same == {i \in names : A.input_shapes[i] = A.shape}
        scalar == {i \in names \ same : A.input_shapes[i] = <<>>}
    IN  IF is_structural(tr)
        THEN /\ \A i \in same :
                   i \in DOMAIN U /\ U[i] = Val(transform(tr, A[i], FALSE))
             /\ \A i \in scalar : i \in DOMAIN U /\ U[i] = A[i]
             /\ \A i \in names \ (same \cup scalar) : i \notin DOMAIN U
             /\ IF A.kind = "Gaussian" /\ {"mean", "std"} \subseteq same \cup scalar
                THEN /\ is_gaussian(U)
                     /\ U.variance = SquareM(U.std)
                     /\ U.variance = Val(transform(tr, A.variance, FALSE))
                ELSE "variance" \notin DOMAIN U
        ELSE /\ \A i \in names \cup {"variance"} : i \notin DOMAIN U
             /\ ~is_gaussian(U)

\* C16: a UnaryTransform of a node A with constant parameters has A's
\* parameters as attributes exactly when its transform is structural: the
\* inputs of A's shape transformed, the scalar inputs unchanged, and for a
\* Gaussian A the variance, which is the square of the passed std and the
\* transform of A's variance; when the transform is not structural it has none
\* of them and is_gaussian of it is false
C16_StructuralPassThrough ==
    \A n \in DOMAIN graph :
        (graph[n].kind = "UnaryTransform"
            /\ ~IsDeterministicNode(graph[graph[n].inputs_random.A]))
        => ExposedBy(graph[n], graph[graph[n].inputs_random.A])

\* the transpose of a Gaussian with a matrix std that is not square: mean,
\* std and variance of the transposed shape
C16_Witness ==
    /\ "u1" \in DOMAIN graph
    /\ graph["u1"].transform = Transpose
    /\ graph["z"].kind = "Gaussian"
    /\ graph["z"].shape = <<1, 2>>
    /\ graph["z"].input_shapes.std = <<1, 2>>
    /\ graph["u1"].variance = <<(<<graph["z"].variance[1][1]>>),
                                (<<graph["z"].variance[1][2]>>)>>
    /\ graph["z"].variance[1][1] # graph["z"].variance[1][2]
    /\ is_gaussian(graph["u1"])

\* ------------------------------------------------------------------------
\* Log-densities (checked under SpecFn)
\* ------------------------------------------------------------------------
IsCall(c, op) == c.op = op /\ c.st = "ok"

\* minus the sum over the dimensions of log(max_range - min_range)
NegLogVolume(min_range, max_range) ==
    NegFx(SumSeq([i \in 1..NRows(min_range) |->
                     SumSeq([j \in 1..NCols(min_range) |->
                                LnFx(SubFx(max_range[i][j], min_range[i][j]))])]))

OutOfBounds(result, min_range, max_range) ==
    \E i \in 1..NRows(result) : \E j \in 1..NCols(result) :
        result[i][j] < min_range[i][j] \/ result[i][j] > max_range[i][j]

\* C17: ContinuousUniform._logp returns minus the sum over the dimensions of
\* log(max_range - min_range), and two calls with the same bounds return the
\* same value whatever their results, inside or outside the bounds
C17_UniformLogpIgnoresResult ==
    [][IsCall(call', "ContinuousUniform._logp")
          => /\ call'.ret = <<NegLogVolume(call'.arg[2], call'.arg[3])>>
             /\ (IsCall(call, "ContinuousUniform._logp")
                    /\ call.arg[2] = call'.arg[2] /\ call.arg[3] = call'.arg[3])
                => call'.ret = call.ret]_vars

\* the log-density of a result outside the bounds: finite, and not zero
C17_Witness ==
    /\ IsCall(call, "ContinuousUniform._logp")
    /\ OutOfBounds(call.arg[1], call.arg[2], call.arg[3])
    /\ NRows(call.arg[1]) = 2 /\ NCols(call.arg[1]) = 2
    /\ call.ret[1] \notin {0, PosInf, NegInf, NaN}

\* ------------------------------------------------------------------------
\* Simplex and the clipping ranges (checked under SpecFn)
\* ------------------------------------------------------------------------
\* y is x with a constant added to each row
IsRowShift(x_, y) ==
    /\ NRows(x_) = NRows(y) /\ NCols(x_) = NCols(y)
    /\ \A i \in 1..NRows(x_) : \A j \in 1..NCols(x_) :
          y[i][j] - x_[i][j] = y[i][1] - x_[i][1]

\* C18: Simplex.transform of a matrix and of the same matrix with a constant
\* added to it, or a constant of its own added to each row, return the same
\* value and, when requested, the same log-Jacobian
C18_SimplexShiftInvariant ==
    [][(/\ call.op = "Simplex.transform" /\ call'.op = "Simplex.transform"
        /\ call.arg[2] = call'.arg[2]
        /\ IsRowShift(call.arg[1], call'.arg[1]))
       => (call'.st = "ok" /\ call'.st = call.st /\ call'.ret = call.ret)]_vars

\* the value and log-Jacobian of a matrix whose two rows were shifted by -1
\* and by 100 are those of the matrix itself
C18_Witness ==
    /\ IsCall(call, "Simplex.transform")
    /\ call.arg[2]
    /\ \E m \in InputMatrices :
          /\ NRows(m) = 2 /\ NCols(m) = 2
          /\ call.arg[1] = Shifted(m, <<NegFx(Scale), 100 * Scale>>)
          /\ call.ret = transform(Simplex, m, TRUE).ret
          /\ Len(call.ret) = 2

\* the matrix with every entry clipped to the range of exp, of log
ClippedForExp(m) == [i \in 1..NRows(m) |-> [j \in 1..NCols(m) |-> ClipExpInput(m[i][j])]]
ClippedForLog(m) == [i \in 1..NRows(m) |-> [j \in 1..NCols(m) |-> ClipLogInput(m[i][j])]]

\* the calls whose input is itself the argument of exp, of log
ExpOfInput(c) == c.op = "transform" /\ c.arg[1] \in {Logit, Exp, Log1Exp}
LogOfInput(c) ==
    \/ c.op = "inverse" /\ c.arg[1] = Exp
    \/ c.op = "transform" /\ c.arg[1] = Reciprocal
\* the log-Jacobian of Square.transform is the sum of the logs of the input
LogJacOfInput(c) == c.op = "transform" /\ c.arg[1] = Square /\ c.arg[3]

\* the class defines the operation and the input has a shape it accepts
Applicable(c) ==
    /\ c.op = "inverse" => c.arg[1] # RowNormalize
    /\ (c.op = "inverse" /\ c.arg[1] = RowNormalize1) => NCols(c.arg[2]) >= 2

\* C19: transform and inverse of Logit, Exp, Log1Exp, Square, Reciprocal,
\* RowNormalize and RowNormalize1 never raise, and an input beyond the range
\* of exp (-88..88) or of log (1e-45..1e38) gives the result, value and
\* log-Jacobian, of the nearest endpoint of the range
C19_ClippedBeforeExpLog ==
    (call.op \in {"transform", "inverse"} /\ Applicable(call))
    => /\ call.st = "ok"
       /\ ExpOfInput(call)
             => call.ret = transform(call.arg[1], ClippedForExp(call.arg[2]), call.arg[3]).ret
       /\ (LogOfInput(call) /\ call.op = "transform")
             => call.ret = transform(call.arg[1], ClippedForLog(call.arg[2]), call.arg[3]).ret
       /\ (LogOfInput(call) /\ call.op = "inverse")
             => call.ret = inverse(call.arg[1], ClippedForLog(call.arg[2]), call.arg[3]).ret
       /\ LogJacOfInput(call)
             => call.ret[2] = transform(Square, ClippedForLog(call.arg[2]), TRUE).ret[2]

\* ------------------------------------------------------------------------
\* Expected log-densities of the discrete families (checked under SpecFn)
\* ------------------------------------------------------------------------
\* sum of q * log p, and of (1 - q) * log(1 - p), over the elements, the
\* probability under the log kept within 1e-37..1 as the library does
SumQLogP(q, p) ==
    ReduceSum(Elementwise(LAMBDA qv, pv : MulFx(qv, ClippedLogProb(pv)), q, p))
SumNotQLogNotP(q, p) ==
    ReduceSum(Elementwise(LAMBDA qv, pv :
                  MulFx(SubFx(Scale, qv), ClippedLogProb(SubFx(Scale, pv))), q, p))

ExposesProbabilities(c) == "p" \in DOMAIN c.arg[1]

\* the BernoulliMatrix part: sum of q*log p + (1-q)*log(1-p), never positive
BernoulliExpectedLogpIsNegatedCrossEntropy ==
    (call.op = "BernoulliMatrix._expected_logp" /\ ExposesProbabilities(call))
    => /\ call.st = "ok"
       /\ Abs(call.ret[1] - AddFx(SumQLogP(call.arg[1].p, call.arg[2].sampled),
                                  SumNotQLogNotP(call.arg[1].p, call.arg[2].sampled))) <= Tol
       /\ call.ret[1] <= 0

\* the MultinomialMatrix part: sum of q*log p, never positive
MultinomialExpectedLogpIsNegatedCrossEntropy ==
    (call.op = "MultinomialMatrix._expected_logp" /\ ExposesProbabilities(call))
    => /\ call.st = "ok"
       /\ Abs(call.ret[1] - SumQLogP(call.arg[1].p, call.arg[2].sampled)) <= Tol
       /\ call.ret[1] <= 0

\* C20: when the result posterior exposes probabilities q and the parameter
\* posterior has the sample p, _expected_logp returns the negated
\* cross-entropy of q relative to p, sum of q*log p + (1-q)*log(1-p) for
\* BernoulliMatrix and sum of q*log p for MultinomialMatrix, which is never
\* positive
C20_ExpectedLogpIsNegatedCrossEntropy ==
    /\ BernoulliExpectedLogpIsNegatedCrossEntropy
    /\ MultinomialExpectedLogpIsNegatedCrossEntropy

\* ------------------------------------------------------------------------
\* DirichletMatrix over both arities of alpha (checked under SpecDist)
\* ------------------------------------------------------------------------
\* C21: a DirichletMatrix node has the shape of its concentration alpha, a
\* vector (K,) or a matrix (N, K): its construction, _sample and default_q
\* succeed for both arities, and default_q returns a posterior of the node's
\* own shape
C21_DirichletBothArities ==
    /\ call.op = "DirichletMatrix"
          => call.st = "ok" /\ call.ret[1].shape = call.arg[2]
    /\ call.op = "DirichletMatrix._sample"
          => call.st = "ok" /\ call.ret[2] = graph["D"].shape
    /\ call.op = "DirichletMatrix.default_q"
          => call.st = "ok" /\ call.ret[1].shape = graph["D"].shape

\* ------------------------------------------------------------------------
\* Log-density and entropy of Laplace (checked under SpecFn)
\* ------------------------------------------------------------------------
\* sum over the elements of -|result - loc| / scale - log(2 * scale)
LaplaceLogDensity(result, loc, scale) ==
    ReduceSum([i \in 1..NRows(result) |-> [j \in 1..NCols(result) |->
        SubFx(NegFx(DivFx(Abs(SubFx(result[i][j], loc[i][j])), scale[i][j])),
              LnFx(MulInt(2, scale[i][j])))]])
\* sum over the elements of log(2 * scale)
SumLogTwoScale(scale) ==
    ReduceSum([i \in 1..NRows(scale) |-> [j \in 1..NCols(scale) |->
        LnFx(MulInt(2, scale[i][j]))]])

\* C22: Laplace._logp(result, loc, scale) is the sum over the elements of
\* -|result - loc| / scale - log(2 * scale); at result = loc it is minus the
\* sum of log(2 * scale), which decreases when scale grows
C22_LaplaceLogpIsLogDensity ==
    call.op = "Laplace._logp"
    => /\ call.st = "ok"
       /\ Abs(call.ret[1] - LaplaceLogDensity(call.arg[1], call.arg[2], call.arg[3])) <= Tol
       /\ call.arg[1] = call.arg[2]
             => Abs(call.ret[1] + SumLogTwoScale(call.arg[3])) <= Tol

\* C23: Laplace._entropy(loc, scale) is the sum over the n elements of the
\* node of 1 + log(2 * scale_i): 1 + log(4) for one element of scale 2, and
\* n * (1 + log(2 * s)) for n elements of common scale s
C23_LaplaceEntropyPerElement ==
    call.op = "Laplace._entropy"
    => /\ call.st = "ok"
       /\ Abs(call.ret[1] - AddFx(MulInt(NRows(call.arg[2]) * NCols(call.arg[2]), Scale),
                                  SumLogTwoScale(call.arg[2]))) <= Tol

\* ------------------------------------------------------------------------
\* Density and entropy of a TransformedDistribution (checked under SpecDist)
\* ------------------------------------------------------------------------
\* C24: for every TransformedDistribution(dist, T), the default posteriors
\* of the catalog (Exp-, Logit- and Simplex-transformed Gaussians) included,
\* _logp(result) returns dist._logp(T.inverse(result)) plus the log-Jacobian
\* that T.inverse reports at result, and never fails for a result in the
\* range of T
C24_LogpChangesVariables ==
    call.op = "TransformedDistribution._logp"
    => /\ call.st = "ok"
       /\ IsOk(inverse(graph["Q"].transform, call.arg[1], TRUE))
       /\ call.ret[1] =
             AddFx(Node_logp(graph["Q"].dist,
                             Val(inverse(graph["Q"].transform, call.arg[1], TRUE)),
                             call.arg[2]),
                   LogJac(inverse(graph["Q"].transform, call.arg[1], TRUE)))

\* the log-Jacobian recorded on the node Q of g, if any
Recorded(g) ==
    IF "Q" \in DOMAIN g /\ "sampled_log_jacobian" \in DOMAIN g["Q"]
    THEN <<g["Q"].sampled_log_jacobian>> ELSE <<>>

\* _entropy returns dist._entropy plus the recorded log-Jacobian, and fails
\* while none is recorded
EntropyAddsRecorded ==
    call'.op = "TransformedDistribution._entropy"
    => /\ graph' = graph
       /\ IF Recorded(graph) = <<>> THEN call'.st # "ok"
          ELSE /\ call'.st = "ok"
               /\ call'.ret[1] = AddFx(Node_entropy(graph["Q"].dist, call'.arg[1]),
                                       Recorded(graph)[1])

\* _sample_and_entropy records the forward log-Jacobian of the sample it
\* transforms and returns dist._sampled_entropy plus that log-Jacobian
SampleAndEntropyRecords ==
    (call'.op = "TransformedDistribution._sample_and_entropy" /\ call'.st = "ok")
    => /\ Recorded(graph') =
             <<LogJac(transform(graph["Q"].transform, graph["Q"].dist.sampled, TRUE))>>
       /\ call'.ret[1] =
             Val(transform(graph["Q"].transform, graph["Q"].dist.sampled, TRUE))
       /\ call'.ret[2] = AddFx(graph["Q"].dist.sampled_entropy, Recorded(graph')[1])

\* no other call, a plain _sample included, and no failed call changes the
\* recorded log-Jacobian
OnlySampleAndEntropyRecords ==
    ~(call'.op = "TransformedDistribution._sample_and_entropy" /\ call'.st = "ok")
    => Recorded(graph') = Recorded(graph)

\* C25: in any sequence of calls on a TransformedDistribution, _entropy
\* returns dist._entropy plus the forward log-Jacobian recorded by the most
\* recent _sample_and_entropy; it is defined only after _sample_and_entropy
\* has run, a plain _sample does not update the recorded log-Jacobian, and
\* the entropy that _sample_and_entropy returns is dist._sampled_entropy plus
\* the log-Jacobian of that same sample
C25_EntropyUsesRecordedLogJacobian ==
    [][/\ EntropyAddsRecorded
       /\ SampleAndEntropyRecords
       /\ OnlySampleAndEntropyRecords
       /\ (call'.op = "TransformedDistribution._sample" => graph' = graph)]_vars

\* _entropy has returned a value after _sample_and_entropy recorded a
\* log-Jacobian other than zero
C25_Witness ==
    /\ call.op = "TransformedDistribution._entropy"
    /\ call.st = "ok"
    /\ Recorded(graph) # <<>>
    /\ Recorded(graph)[1] # 0

====
